---- MODULE Spec2Model ----
(***************************************************************************)
(* Job execution engine of the deep-research orchestrator: the durable     *)
(* store rows (research_jobs, research_steps, notes), the worker tick      *)
(* (rescue sweep, capacity gate, claim), the pipeline executor             *)
(* (Worker.processJob) and the control API (cancel / pause / start /       *)
(* clarify).  Every await of the TypeScript source is a separate step, so  *)
(* that the interleavings of ticks, executors and API requests are the     *)
(* ones the event loop and the database allow.                             *)
(***************************************************************************)
EXTENDS Integers, Sequences, FiniteSets, TLC

\* ------------------------------------------------------------------ bounds
\* Rows, concurrent tick invocations and concurrent control API requests.
NumJobs == 1
NumTicks == 2
NumApi == 1
\* Page notes one step asks for, and the size of a job's notes table.
MaxPageNotes == 1
MaxNotes == 2
\* Steps a plan may hold (config.worker.maxSteps caps it in the source).
MaxSteps == 2
\* What the environment may do in Spec: ticks fired, control API requests,
\* failing calls, clock advances.
MaxFires == 2
MaxCalls == 1
MaxFaults == 1
MaxClock == 1
\* The same for the other specifications.
RescueFires == 2
RescueClock == 2
NumRaceJobs == 3
NumOverlapJobs == 2
OverlapFires == 2
ControlFires == 2
ControlCalls == 2
\* Clarification: how many control API requests one job receives.
ClarifyCalls == 2
\* The citation ledger: concurrent renderNoteWithCitations loops, how often
\* each may run, and the URLs and titles a fetched page may have.
NumWriters == 2
MaxRenders == 2
NumUrls == 2
NumTitles == 1
\* Intake: the longest metadata string and the longest metadata array.
MaxStringLen == 1
MaxEntries == 2
\* The context pack: how many notes a job has, their importance and
\* token_count, the budget and the cap.
MaxPackNotes == 3
MaxImportance == 2
MaxTokenCount == 3
MaxBudget == 5
MaxCap == 2
\* The clock: its first value and the length of one advance, in ms.
Epoch == 1000
ClockStepMs == 1500

\* ------------------------------------------------------- program constants
\* config.worker.maxConcurrent, at its default.
MaxConcurrent == 1
\* config.worker.rescue.*: deployment settings, here a start threshold below
\* one clock advance and a heartbeat threshold between one and two.
StartSeconds == 1
HeartbeatSeconds == 2
GraceSeconds == 1
\* DEFAULT_SECTION_PLAN.length
NumSections == 4
\* SQL NULL / undefined, and the values of the text and JSON columns.
NULL == -1
ErrorText == 1
ControlErrorText == 2
ChatErrorText == 3
PlanErrorText == 4
ReportText == 1
AssetsValue == 1
NoSearchResults == 1
SourcesResult == 2

Ticks == 1..NumTicks
ApiIds == 1..NumApi

JobStatus ==
  {"queued", "running", "paused", "cancelled", "completed", "error",
   "clarification_required"}
HaltStatus == {"paused", "cancelled", "clarification_required"}
MaxDurationChoices == {0, 3600}

VARIABLES
  research_jobs,   \* [Jobs -> row of table research_jobs]
  research_steps,  \* [Jobs -> sequence of rows of research_steps, by id]
  notes,           \* [Jobs -> sequence of rows of notes, in insertion order]
  tick,            \* [Ticks -> one invocation of Worker.tick and its promise chain]
  running,         \* Worker.running
  api,             \* [ApiIds -> control API request between its read and its write]
  longformEnabled, \* config.features.longformEnabled
  now,             \* wall clock, ms
  budget,          \* what the environment may still do: ticks fired, API
                   \* requests, failing calls, clock advances
  sources,         \* [Jobs -> set of rows of table sources, through their notes]
  citation_ledger, \* [Jobs -> set of rows of table citation_ledger]
  writer,          \* [Writers -> one renderNoteWithCitations loop in flight]
  request,         \* the POST /research request and the job_id of its reply
  pack,            \* the locals of one buildFinalReport call while it packs
  metadata         \* [Jobs -> column metadata of table research_jobs]

\* The tables and calls that the tick, the step loop and the control API
\* leave alone.
aux == <<sources, citation_ledger, writer, request, pack, metadata>>

vars ==
  <<research_jobs, research_steps, notes, tick, running, api, longformEnabled, now, budget,
    aux>>

\* The ids of the rows of research_jobs.
Jobs == DOMAIN research_jobs

\* ------------------------------------------------------------- small helpers
Max(a, b) == IF a >= b THEN a ELSE b
Min(a, b) == IF a <= b THEN a ELSE b
Max3(a, b, c) == Max(a, Max(b, c))
NoFields == [x \in {} |-> NULL]

\* ------------------------------------------------------------ job metadata
\* REQUIRED_METADATA_FIELDS
ClarificationKeys ==
  {"time_horizon", "region_focus", "data_modalities", "integration_targets",
   "quality_constraints"}

\* The keys of metadataSchema that collectClarificationPrompts or a
\* metadataDefaults argument can meet.
MetadataKeys == ClarificationKeys \cup {"source"}

\* JSON values: a string is its sequence of characters, an array or object
\* its sequence of entries; an absent key reads as undefined.
Chars == {" ", "x"}
Strings == UNION { [1..n -> Chars] : n \in 0..MaxStringLen }
Undefined == [type |-> "undefined", chars |-> <<>>, entries |-> <<>>]
Str(chars) == [type |-> "string", chars |-> chars, entries |-> <<>>]
Arr(entries) == [type |-> "array", chars |-> <<>>, entries |-> entries]

\* String.prototype.trim
RECURSIVE TrimStart(_)
TrimStart(chars) ==
  IF chars # <<>> /\ Head(chars) = " " THEN TrimStart(Tail(chars)) ELSE chars

RECURSIVE TrimEnd(_)
TrimEnd(chars) ==
  IF chars # <<>> /\ chars[Len(chars)] = " "
    THEN TrimEnd(SubSeq(chars, 1, Len(chars) - 1))
    ELSE chars

Trim(chars) == TrimEnd(TrimStart(chars))

\* A test that takes any string but the empty one for a value.
RECURSIVE HasMetadataValueNoTrim(_)
HasMetadataValueNoTrim(value) ==
  IF value.type \in {"null", "undefined"} THEN FALSE
  ELSE IF value.type = "string" THEN Len(value.chars) > 0
  ELSE IF value.type = "array"
    THEN \E k \in DOMAIN value.entries : HasMetadataValueNoTrim(value.entries[k])
  ELSE IF value.type = "object" THEN Len(value.entries) > 0
  ELSE TRUE

\* hasMetadataValue
RECURSIVE HasMetadataValue(_)
HasMetadataValue(value) ==
  IF value.type \in {"null", "undefined"} THEN FALSE
  ELSE IF value.type = "string" THEN Len(Trim(value.chars)) > 0
  ELSE IF value.type = "array"
    THEN \E k \in DOMAIN value.entries : HasMetadataValue(value.entries[k])
  ELSE IF value.type = "object" THEN Len(value.entries) > 0
  ELSE TRUE

\* collectClarificationPrompts: the keys of the prompts it returns.
CollectClarificationPrompts(bag) ==
  { key \in ClarificationKeys : ~HasMetadataValue(bag[key]) }

\* JSON.parse of a stored column: a metadata object with every key absent,
\* and one in which the five keys have a value.
NoMetadata == [key \in MetadataKeys |-> Undefined]
FullMetadata ==
  [key \in MetadataKeys |-> IF key \in ClarificationKeys THEN Str(<<"x">>) ELSE Undefined]

\* ---------------------------------------------------------- idle records
NoResponse == [kind |-> "none", n |-> 0]

IdleTick ==
  [pc |-> "idle", job |-> NULL, txn_now |-> NULL, rescues |-> {},
   steps |-> <<>>, i |-> 0, response |-> NoResponse, stepsPlan |-> <<>>,
   todo |-> <<>>, sec |-> 0, thrown |-> "none", sawHalt |-> FALSE]

IdleApi == [op |-> "idle", job |-> NULL, responses |-> <<>>, metadata |-> <<>>]

Writers == 1..NumWriters

IdleWriter ==
  [pc |-> "idle", todo |-> <<>>, hash |-> <<>>, next |-> 0, citations |-> <<>>,
   runs |-> 0]

\* No POST /research request in flight.
NoRequest == [metadata |-> <<>>, defaults |-> <<>>, max_duration |-> NULL, job |-> NULL]

\* No buildFinalReport call is packing notes.
NoPack ==
  [pc |-> "idle", notes |-> <<>>, selected |-> <<>>, k |-> 0, budget |-> 0,
   packed |-> <<>>, B |-> 0, cap |-> 0]

\* No source, no ledger entry, no citation being assigned, no job being
\* created, no context pack being built; a job that waits for clarification
\* has no metadata yet, any other job has its five keys.
AuxInit ==
  /\ sources = [j \in Jobs |-> {}]
  /\ citation_ledger = [j \in Jobs |-> {}]
  /\ writer = [w \in Writers |-> IdleWriter]
  /\ request = NoRequest
  /\ pack = NoPack
  /\ metadata = [j \in Jobs |->
                   IF research_jobs[j].status = "clarification_required"
                     THEN NoMetadata ELSE FullMetadata]

\* Row lock held by a claim transaction between its SELECT ... FOR UPDATE
\* and its COMMIT.
Locked(j) == \E t \in Ticks : tick[t].pc = "claim_update" /\ tick[t].job = j

\* ------------------------------------------------ jobRepository operations
\* updateJobStatus: status, updated_at, last_heartbeat and the given fields.
UpdateJobStatus(jobId, status, fields) ==
  [research_jobs EXCEPT ![jobId] =
     fields @@ [@ EXCEPT !.status = status, !.updated_at = now,
                         !.last_heartbeat = now]]

\* touchJobHeartbeat
TouchJobHeartbeat(rows, jobId) ==
  [rows EXCEPT ![jobId].last_heartbeat = now, ![jobId].updated_at = now]

\* An updateStep that leaves the result column alone.
UpdateStepStatusOnly(jobId, stepId, status, result) ==
  [research_steps EXCEPT ![jobId][stepId].status = status]

\* updateStep: status and result (null when the caller gives none) of the
\* step row with that id.
UpdateStep(jobId, stepId, status, result) ==
  [research_steps EXCEPT ![jobId][stepId].status = status,
                         ![jobId][stepId].result = result]

\* listSteps: the rows of a job ORDER BY step_order; each carries its id.
RECURSIVE SortByOrder(_, _)
SortByOrder(rows, ids) ==
  IF ids = {} THEN <<>>
  ELSE LET first == CHOOSE a \in ids : \A b \in ids :
                      \/ rows[a].step_order < rows[b].step_order
                      \/ rows[a].step_order = rows[b].step_order /\ a <= b
       IN <<[id |-> first, status |-> rows[first].status,
             step_order |-> rows[first].step_order]>>
          \o SortByOrder(rows, ids \ {first})

ListSteps(jobId) ==
  SortByOrder(research_steps[jobId], DOMAIN research_steps[jobId])

\* ensureJobActive without its test for paused.
EnsureJobActiveNoPause(jobId) ==
  LET snapshot == research_jobs[jobId] IN
  IF snapshot.status = "cancelled" THEN "cancelled"
  ELSE IF snapshot.status = "clarification_required" THEN "clarification_required"
  ELSE "ok"

\* ensureJobActive: the status that makes it throw JobControlError, or "ok".
EnsureJobActive(jobId) ==
  LET snapshot == research_jobs[jobId] IN
  IF snapshot.status = "paused" THEN "paused"
  ELSE IF snapshot.status = "cancelled" THEN "cancelled"
  ELSE IF snapshot.status = "clarification_required" THEN "clarification_required"
  ELSE "ok"

\* A test that skips completed steps only.
IsStepCompleteOnly(status) == status = "completed"

\* isStepComplete
IsStepComplete(status) == status = "completed" \/ status = "partial"

\* ------------------------------------------------------------ rescue sweep
\* The decision loop without the Math.min against max_duration_seconds.
RescueReasonNoDuration(j) ==
  LET row == research_jobs[j]
      has_steps == Len(research_steps[j]) > 0
      startedMs == IF row.started_at # NULL THEN row.started_at ELSE row.created_at
      heartbeatBase ==
        IF row.last_heartbeat # NULL THEN row.last_heartbeat
        ELSE IF row.updated_at # NULL THEN row.updated_at
        ELSE startedMs
  IN IF ~has_steps
       THEN IF startedMs # 0 /\ now - startedMs > StartSeconds * 1000
              THEN "start" ELSE "none"
       ELSE IF heartbeatBase = 0 THEN "none"
       ELSE IF now - heartbeatBase > HeartbeatSeconds * 1000 THEN "heartbeat"
       ELSE "none"

\* A decision loop that knows the start rule only.
RescueReasonStartOnly(j) ==
  LET row == research_jobs[j]
      startedMs == IF row.started_at # NULL THEN row.started_at ELSE row.created_at
  IN IF Len(research_steps[j]) = 0 /\ startedMs # 0
          /\ now - startedMs > StartSeconds * 1000
       THEN "start" ELSE "none"

\* The decision the loop of rescueStaleJobs takes for one running row.
RescueReason(j) ==
  LET row == research_jobs[j]
      has_steps == Len(research_steps[j]) > 0
      startedMs == IF row.started_at # NULL THEN row.started_at ELSE row.created_at
      heartbeatBase ==
        IF row.last_heartbeat # NULL THEN row.last_heartbeat
        ELSE IF row.updated_at # NULL THEN row.updated_at
        ELSE startedMs
      threshold ==
        IF row.max_duration_seconds = NULL THEN HeartbeatSeconds * 1000
        ELSE Min(HeartbeatSeconds * 1000,
                 row.max_duration_seconds * 1000 + GraceSeconds * 1000)
  IN IF ~has_steps
       THEN IF startedMs # 0 /\ now - startedMs > StartSeconds * 1000
              THEN "start" ELSE "none"
       ELSE IF heartbeatBase = 0 THEN "none"
       ELSE IF now - heartbeatBase > threshold THEN "heartbeat"
       ELSE "none"

\* The rescues list built from the rows WHERE status = 'running'.
RescueList ==
  { [id |-> j, reason |-> RescueReason(j)] :
      j \in { k \in Jobs : research_jobs[k].status = "running"
                           /\ RescueReason(k) # "none" } }

RescueIds(t) == { r.id : r \in tick[t].rescues }

\* A tick without the capacity gate.
GatePcOpen == "claim_select"

\* The capacity gate of Worker.tick, taken when the sweep has settled.
GatePc == IF running >= MaxConcurrent THEN "idle" ELSE "claim_select"

AfterSweep(t) ==
  IF GatePc = "idle" THEN IdleTick ELSE [IdleTick EXCEPT !.pc = "claim_select"]

\* ------------------------------------------------------------------- Init
InitJob(created, status, maxDuration) ==
  [status |-> status, created_at |-> created, started_at |-> NULL,
   updated_at |-> created, last_heartbeat |-> created,
   max_duration_seconds |-> maxDuration, final_report |-> NULL,
   report_assets |-> NULL, completed_at |-> NULL, error |-> NULL]

\* Jobs as the intake and the control API leave them before any claim:
\* queued, waiting for clarification, or paused while still queued.
Init ==
  /\ research_jobs \in
       [1..NumJobs -> { InitJob(Epoch, s, d) :
                          s \in {"queued", "clarification_required", "paused"},
                          d \in MaxDurationChoices }]
  /\ research_steps = [j \in 1..NumJobs |-> <<>>]
  /\ notes = [j \in 1..NumJobs |-> <<>>]
  /\ tick = [t \in Ticks |-> IdleTick]
  /\ running = 0
  /\ api = [a \in ApiIds |-> IdleApi]
  /\ longformEnabled = FALSE
  /\ now = Epoch
  /\ budget = [fires |-> MaxFires, calls |-> MaxCalls, faults |-> MaxFaults,
               clock |-> MaxClock]
  /\ AuxInit

\* ------------------------------------------------------------ Worker.tick
\* setInterval fires a tick, whether or not an earlier one has settled.
Fire(t) ==
  /\ budget.fires > 0
  /\ budget' = [budget EXCEPT !.fires = @ - 1]
  /\ tick[t].pc = "idle"
  /\ tick' = [tick EXCEPT ![t].pc = "rescue_scan"]
  /\ UNCHANGED <<research_jobs, research_steps, notes, running, api,
                 longformEnabled, now>>
  /\ UNCHANGED aux

\* rescueStaleJobs: the SELECT and the decision loop.
RescueScan(t) ==
  /\ tick[t].pc = "rescue_scan"
  /\ tick' = [tick EXCEPT ![t] =
       IF RescueList = {} THEN AfterSweep(t)
       ELSE [IdleTick EXCEPT !.pc = "rescue_jobs", !.rescues = RescueList]]
  /\ UNCHANGED <<research_jobs, research_steps, notes, running, api,
                 longformEnabled, now, budget>>
  /\ UNCHANGED aux

\* The job UPDATE of the sweep without "started_at = NULL".
RescuedJobsKeepStart(ids) ==
  [j \in Jobs |->
     IF j \in ids
       THEN [research_jobs[j] EXCEPT !.status = "queued", !.updated_at = now,
                                     !.last_heartbeat = now]
       ELSE research_jobs[j]]

\* rescueStaleJobs: UPDATE research_jobs ... WHERE id = ANY(ids).
RescuedJobs(ids) ==
  [j \in Jobs |->
     IF j \in ids
       THEN [research_jobs[j] EXCEPT !.status = "queued", !.started_at = NULL,
                                     !.updated_at = now, !.last_heartbeat = now]
       ELSE research_jobs[j]]

RescueUpdateJobs(t) ==
  /\ tick[t].pc = "rescue_jobs"
  /\ \A j \in RescueIds(t) : ~Locked(j)
  /\ research_jobs' = RescuedJobs(RescueIds(t))
  /\ tick' = [tick EXCEPT ![t].pc = "rescue_steps"]
  /\ UNCHANGED <<research_steps, notes, running, api, longformEnabled, now, budget>>
  /\ UNCHANGED aux

\* rescueStaleJobs: UPDATE research_steps ... AND status = 'running'.
RescuedSteps(ids) ==
  [j \in Jobs |->
     IF j \in ids
       THEN [k \in DOMAIN research_steps[j] |->
               IF research_steps[j][k].status = "running"
                 THEN [research_steps[j][k] EXCEPT !.status = "pending"]
                 ELSE research_steps[j][k]]
       ELSE research_steps[j]]

RescueUpdateSteps(t) ==
  /\ tick[t].pc = "rescue_steps"
  /\ research_steps' = RescuedSteps(RescueIds(t))
  /\ tick' = [tick EXCEPT ![t] = AfterSweep(t)]
  /\ UNCHANGED <<research_jobs, notes, running, api, longformEnabled, now, budget>>
  /\ UNCHANGED aux

\* A query of the sweep fails: tick logs it and goes on to the gate.
RescueFail(t) ==
  /\ budget.faults > 0
  /\ budget' = [budget EXCEPT !.faults = @ - 1]
  /\ tick[t].pc \in {"rescue_scan", "rescue_jobs", "rescue_steps"}
  /\ tick' = [tick EXCEPT ![t] = AfterSweep(t)]
  /\ UNCHANGED <<research_jobs, research_steps, notes, running, api,
                 longformEnabled, now>>
  /\ UNCHANGED aux

\* The SELECT of the claim without SKIP LOCKED and without the row lock.
ClaimCandidatesNoLock == { j \in Jobs : research_jobs[j].status = "queued" }

\* The SELECT of the claim without its test of the status.
ClaimCandidatesAnyStatus == { j \in Jobs : ~Locked(j) }

\* claimNextQueuedJob: BEGIN; SELECT ... WHERE status = 'queued'
\* ORDER BY created_at FOR UPDATE SKIP LOCKED LIMIT 1.  No row: COMMIT, null.
ClaimCandidates == { j \in Jobs : research_jobs[j].status = "queued" /\ ~Locked(j) }

\* A SELECT with LIMIT 1 and no ORDER BY: any candidate row.
Unordered(candidates) == candidates

\* ORDER BY created_at LIMIT 1: the rows that may come first.
OrderByCreatedAt(candidates) ==
  { j \in candidates :
      \A k \in candidates :
        research_jobs[j].created_at <= research_jobs[k].created_at }

ClaimSelect(t) ==
  /\ tick[t].pc = "claim_select"
  /\ IF ClaimCandidates = {}
       THEN tick' = [tick EXCEPT ![t] = IdleTick]
       ELSE \E j \in OrderByCreatedAt(ClaimCandidates) :
              tick' = [tick EXCEPT ![t].pc = "claim_update", ![t].job = j,
                                   ![t].txn_now = now]
  /\ UNCHANGED <<research_jobs, research_steps, notes, running, api,
                 longformEnabled, now, budget>>
  /\ UNCHANGED aux

\* claimNextQueuedJob: UPDATE ... SET status='running', the three timestamps
\* = now() of the transaction; COMMIT.  Back in tick: running += 1 and
\* processJob starts.
ClaimedRow(row, txnNow) ==
  [row EXCEPT !.status = "running", !.started_at = txnNow,
              !.updated_at = txnNow, !.last_heartbeat = txnNow]

ClaimUpdate(t) ==
  /\ tick[t].pc = "claim_update"
  /\ research_jobs' = [research_jobs EXCEPT ![tick[t].job] =
                         ClaimedRow(@, tick[t].txn_now)]
  /\ running' = running + 1
  /\ tick' = [tick EXCEPT ![t].pc = "load", ![t].txn_now = NULL]
  /\ UNCHANGED <<research_steps, notes, api, longformEnabled, now, budget>>
  /\ UNCHANGED aux


\* ------------------------------------------------------ Worker.processJob
CheckPcs ==
  {"load_check", "step_check", "exec_check", "post_check", "synth_check",
   "lf_check", "section_check"}

\* The control checks made inside the try block of processJob.
InTry(pc) == pc \in {"synth_check", "lf_check", "section_check"}

ExecutorPcs ==
  CheckPcs \cup
  {"load", "plan", "insert", "touch_plan", "step_running", "search", "notes",
   "step_done", "synth", "section_draft", "finalize", "artifacts", "complete",
   "cross"}

Executing(t) == tick[t].pc \in ExecutorPcs

\* A chain that settles without the finally of tick.
SettledKeepsSlot(t) ==
  /\ tick' = [tick EXCEPT ![t] = IdleTick]
  /\ UNCHANGED running

\* processJob resolves: the finally of tick releases the slot.
Settled(t) ==
  /\ tick' = [tick EXCEPT ![t] = IdleTick]
  /\ running' = running - 1

\* processJob rejects: the catch of tick is about to write status error.
Rejected(t, kind) ==
  [tick[t] EXCEPT !.pc = "catch_error", !.thrown = kind]

\* The loop "for (const step of steps)": the next position after step i.
NextStepPc(t) ==
  IF tick[t].i < Len(tick[t].steps) THEN "step_check" ELSE "synth_check"

NextAfterCheck(t) ==
  LET s == tick[t] IN
  CASE s.pc = "load_check" ->
         [s EXCEPT !.pc = IF Len(s.steps) = 0 THEN "plan" ELSE "touch_plan"]
    [] s.pc = "step_check" ->
         IF IsStepComplete(s.steps[s.i].status)
           THEN [s EXCEPT !.pc = NextStepPc(t),
                          !.i = IF s.i < Len(s.steps) THEN s.i + 1 ELSE s.i]
           ELSE [s EXCEPT !.pc = "exec_check"]
    [] s.pc = "exec_check" -> [s EXCEPT !.pc = "step_running"]
    [] s.pc = "post_check" ->
         [s EXCEPT !.pc = NextStepPc(t),
                   !.i = IF s.i < Len(s.steps) THEN s.i + 1 ELSE s.i]
    [] s.pc = "synth_check" ->
         [s EXCEPT !.pc = IF longformEnabled THEN "lf_check" ELSE "synth"]
    [] s.pc = "lf_check" -> [s EXCEPT !.pc = "section_check", !.sec = 1]
    [] s.pc = "section_check" -> [s EXCEPT !.pc = "section_draft"]

\* const existingSteps = await listSteps(job.id)
LoadSteps(t) ==
  /\ tick[t].pc = "load"
  /\ tick' = [tick EXCEPT ![t].pc = "load_check",
                          ![t].steps = ListSteps(tick[t].job)]
  /\ UNCHANGED <<research_jobs, research_steps, notes, running, api,
                 longformEnabled, now, budget>>
  /\ UNCHANGED aux

\* await this.ensureJobActive(job.id), at each place processJob,
\* executeStep and buildLongformReport call it.
ControlCheck(t) ==
  /\ tick[t].pc \in CheckPcs
  /\ LET verdict == EnsureJobActive(tick[t].job)
         seen == research_jobs[tick[t].job].status \in HaltStatus
     IN IF verdict = "ok"
          THEN /\ tick' = [tick EXCEPT ![t] =
                             [NextAfterCheck(t) EXCEPT !.sawHalt = seen]]
               /\ UNCHANGED running
          ELSE IF InTry(tick[t].pc)
            THEN Settled(t)
            ELSE /\ tick' = [tick EXCEPT ![t] =
                               [Rejected(t, "control") EXCEPT !.sawHalt = seen]]
                 /\ UNCHANGED running
  /\ UNCHANGED <<research_jobs, research_steps, notes, api, longformEnabled, now, budget>>
  /\ UNCHANGED aux

\* What the planner model answers: a JSON array of n steps, JSON that is
\* not an array, or text that JSON.parse rejects.
PlannerResponses ==
  { [kind |-> "array", n |-> n] : n \in 0..(MaxSteps + 1) }
    \cup { [kind |-> "object", n |-> 0], [kind |-> "text", n |-> 0] }

PlannedStep == [title |-> "planned", tool_hint |-> NULL]

FallbackPlan ==
  <<[title |-> "Perform initial web research", tool_hint |-> "searxng"]>>

\* A planner that gives up on output it cannot use.
ParsePlanNoFallback(response) ==
  IF response.kind = "array"
    THEN [k \in 1..Min(response.n, MaxSteps) |-> PlannedStep]
    ELSE <<>>

\* planSteps after the chat call: parsed.slice(0, maxSteps) for an array,
\* the one-step fallback otherwise.
ParsePlan(response) ==
  IF response.kind = "array"
    THEN [k \in 1..Min(response.n, MaxSteps) |-> PlannedStep]
    ELSE FallbackPlan

\* planSteps, and the test of processJob on its result: an empty plan makes
\* processJob throw "No steps planned".
PlanSteps(t) ==
  /\ tick[t].pc = "plan"
  /\ \E response \in PlannerResponses :
       LET stepsPlan == ParsePlan(response) IN
       tick' = [tick EXCEPT ![t] =
                  IF Len(stepsPlan) = 0
                    THEN [Rejected(t, "error") EXCEPT !.response = response]
                    ELSE [tick[t] EXCEPT !.pc = "insert", !.i = 1,
                                         !.response = response,
                                         !.stepsPlan = stepsPlan]]
  /\ UNCHANGED <<research_jobs, research_steps, notes, running, api,
                 longformEnabled, now, budget>>
  /\ UNCHANGED aux

\* insertStep(job.id, plan.title, i + 1, plan.tool_hint)
InsertStep(t) ==
  /\ tick[t].pc = "insert"
  /\ LET j == tick[t].job
         id == Len(research_steps[j]) + 1
         plan == tick[t].stepsPlan[tick[t].i]
         last == tick[t].i = Len(tick[t].stepsPlan)
     IN /\ research_steps' = [research_steps EXCEPT ![j] =
              Append(@, [step_order |-> tick[t].i, status |-> "pending",
                         title |-> plan.title, tool_hint |-> plan.tool_hint,
                         result |-> NULL])]
        /\ tick' = [tick EXCEPT
              ![t].steps = Append(@, [id |-> id, status |-> "pending",
                                      step_order |-> tick[t].i]),
              ![t].i = IF last THEN 0 ELSE @ + 1,
              ![t].stepsPlan = IF last THEN <<>> ELSE @,
              ![t].response = IF last THEN NoResponse ELSE @,
              ![t].pc = IF last THEN "touch_plan" ELSE "insert"]
  /\ UNCHANGED <<research_jobs, notes, running, api, longformEnabled, now, budget>>
  /\ UNCHANGED aux

\* await touchJobHeartbeat(job.id), before the step loop.
TouchAfterPlan(t) ==
  /\ tick[t].pc = "touch_plan"
  /\ ~Locked(tick[t].job)
  /\ research_jobs' = TouchJobHeartbeat(research_jobs, tick[t].job)
  /\ tick' = [tick EXCEPT ![t].pc = "step_check", ![t].i = 1]
  /\ UNCHANGED <<research_steps, notes, running, api, longformEnabled, now, budget>>
  /\ UNCHANGED aux

\* executeStep: updateStep(stepId, "running"); touchJobHeartbeat.
StepRunning(t) ==
  /\ tick[t].pc = "step_running"
  /\ ~Locked(tick[t].job)
  /\ research_steps' = UpdateStep(tick[t].job, tick[t].steps[tick[t].i].id, "running", NULL)
  /\ research_jobs' = TouchJobHeartbeat(research_jobs, tick[t].job)
  /\ tick' = [tick EXCEPT ![t].pc = "search"]
  /\ UNCHANGED <<notes, running, api, longformEnabled, now, budget>>
  /\ UNCHANGED aux

\* The notes the summarizer output asks for: page notes, then the step summary.
NoteChoices ==
  { [k \in 1..(p + s) |-> IF k <= p THEN "page_summary" ELSE "step_summary"] :
      p \in 0..MaxPageNotes, s \in 0..1 }

\* buildToolPriority: the hint, then searxng, ddg_mcp and n8n, each once.
RECURSIVE Dedupe(_, _)
Dedupe(base, ordered) ==
  IF base = <<>> THEN ordered
  ELSE IF \E k \in DOMAIN ordered : ordered[k] = Head(base)
         THEN Dedupe(Tail(base), ordered)
         ELSE Dedupe(Tail(base), Append(ordered, Head(base)))

BuildToolPriority(initial) ==
  Dedupe(<<initial, "searxng", "ddg_mcp", "n8n">>, <<>>)

\* The tools runSearch has a call for, and what a call does: it throws, it
\* returns an empty list or it returns results.
CalledTools == {"searxng", "n8n"}
SearchOutcomes == [CalledTools -> {"throws", "empty", "results"}]

\* runSearch: the first tool of the ordering whose call returns results
\* decides; a throw is caught and logged; [] when the ordering is used up.
RunSearchResults(toolHint, outcome) ==
  LET ordering == BuildToolPriority(toolHint) IN
  IF \E k \in DOMAIN ordering :
       ordering[k] \in CalledTools /\ outcome[ordering[k]] = "results"
    THEN "results" ELSE "empty"

\* executeStep: runSearch; no results -> step partial and return; otherwise
\* fetch, summarizeStep. Every hint of a planned or reloaded step reaches
\* runSearch as "searxng": a missing one takes the parameter default.
RunSearch(t) ==
  /\ tick[t].pc = "search"
  /\ \E outcome \in SearchOutcomes :
       IF RunSearchResults("searxng", outcome) = "empty"
         THEN /\ ~Locked(tick[t].job)
              /\ research_steps' =
                   UpdateStep(tick[t].job, tick[t].steps[tick[t].i].id,
                              "partial", NoSearchResults)
              /\ research_jobs' = TouchJobHeartbeat(research_jobs, tick[t].job)
              /\ tick' = [tick EXCEPT ![t].pc = "post_check"]
         ELSE /\ \E todo \in NoteChoices :
                   tick' = [tick EXCEPT ![t].todo = todo,
                              ![t].pc = IF todo = <<>> THEN "step_done" ELSE "notes"]
              /\ UNCHANGED <<research_jobs, research_steps>>
  /\ UNCHANGED <<notes, running, api, longformEnabled, now, budget>>
  /\ UNCHANGED aux

\* The notes table is kept finite: an insert waits while it is full.
NotesRoom(jobId) == Len(notes[jobId]) < MaxNotes

\* insertNote
InsertNote(rows, jobId, stepId, role) ==
  [rows EXCEPT ![jobId] = Append(@, [role |-> role, step_id |-> stepId])]

\* executeStep: one insertNote (page_summary or step_summary) of the step.
StepNote(t) ==
  /\ tick[t].pc = "notes"
  /\ NotesRoom(tick[t].job)
  /\ notes' = InsertNote(notes, tick[t].job, tick[t].steps[tick[t].i].id,
                         Head(tick[t].todo))
  /\ tick' = [tick EXCEPT ![t].todo = Tail(@),
                ![t].pc = IF Len(tick[t].todo) = 1 THEN "step_done" ELSE "notes"]
  /\ UNCHANGED <<research_jobs, research_steps, running, api, longformEnabled, now, budget>>
  /\ UNCHANGED aux

\* executeStep: updateStep(stepId, "completed"); touchJobHeartbeat (twice).
StepCompleted(t) ==
  /\ tick[t].pc = "step_done"
  /\ ~Locked(tick[t].job)
  /\ research_steps' =
       UpdateStep(tick[t].job, tick[t].steps[tick[t].i].id, "completed",
                  SourcesResult)
  /\ research_jobs' = TouchJobHeartbeat(research_jobs, tick[t].job)
  /\ tick' = [tick EXCEPT ![t].pc = "post_check"]
  /\ UNCHANGED <<notes, running, api, longformEnabled, now, budget>>
  /\ UNCHANGED aux

\* buildFinalReport: draft and critic calls, each followed by a heartbeat.
BuildFinalReport(t) ==
  /\ tick[t].pc = "synth"
  /\ ~Locked(tick[t].job)
  /\ research_jobs' = TouchJobHeartbeat(research_jobs, tick[t].job)
  /\ tick' = [tick EXCEPT ![t].pc = "finalize"]
  /\ UNCHANGED <<research_steps, notes, running, api, longformEnabled, now, budget>>
  /\ UNCHANGED aux

\* buildLongformReport: generateSectionDraft for one section, heartbeat.
SectionDraft(t) ==
  /\ tick[t].pc = "section_draft"
  /\ ~Locked(tick[t].job)
  /\ research_jobs' = TouchJobHeartbeat(research_jobs, tick[t].job)
  /\ tick' = [tick EXCEPT
       ![t].pc = IF tick[t].sec = NumSections THEN "finalize" ELSE "section_check",
       ![t].sec = IF tick[t].sec = NumSections THEN 0 ELSE @ + 1]
  /\ UNCHANGED <<research_steps, notes, running, api, longformEnabled, now, budget>>
  /\ UNCHANGED aux

\* processJob after the report: heartbeat, recordCriticFeedback (a
\* critic_note when the critic said something).
RecordCritic(t) ==
  /\ tick[t].pc = "finalize"
  /\ ~Locked(tick[t].job)
  /\ research_jobs' = TouchJobHeartbeat(research_jobs, tick[t].job)
  /\ \/ /\ NotesRoom(tick[t].job)
        /\ notes' = InsertNote(notes, tick[t].job, NULL, "critic_note")
     \/ UNCHANGED notes
  /\ tick' = [tick EXCEPT ![t].pc = "artifacts"]
  /\ UNCHANGED <<research_steps, running, api, longformEnabled, now, budget>>
  /\ UNCHANGED aux

\* buildReportArtifacts, heartbeat.
BuildArtifacts(t) ==
  /\ tick[t].pc = "artifacts"
  /\ ~Locked(tick[t].job)
  /\ research_jobs' = TouchJobHeartbeat(research_jobs, tick[t].job)
  /\ tick' = [tick EXCEPT ![t].pc = "complete"]
  /\ UNCHANGED <<research_steps, notes, running, api, longformEnabled, now, budget>>
  /\ UNCHANGED aux

\* The completion write without report_assets.
CompletedFieldsNoAssets == [final_report |-> ReportText, completed_at |-> now]

\* updateJobStatus(job.id, "completed", {final_report, report_assets, completed_at})
CompletedFields ==
  [final_report |-> ReportText, report_assets |-> AssetsValue, completed_at |-> now]

Complete(t) ==
  /\ tick[t].pc = "complete"
  /\ ~Locked(tick[t].job)
  /\ research_jobs' = UpdateJobStatus(tick[t].job, "completed", CompletedFields)
  /\ tick' = [tick EXCEPT ![t].pc = "cross"]
  /\ UNCHANGED <<research_steps, notes, running, api, longformEnabled, now, budget>>
  /\ UNCHANGED aux

\* recordCrossSummary: insertNote(cross_job_summary), heartbeat; processJob returns.
CrossSummary(t) ==
  /\ tick[t].pc = "cross"
  /\ NotesRoom(tick[t].job)
  /\ ~Locked(tick[t].job)
  /\ notes' = InsertNote(notes, tick[t].job, NULL, "cross_job_summary")
  /\ research_jobs' = TouchJobHeartbeat(research_jobs, tick[t].job)
  /\ Settled(t)
  /\ UNCHANGED <<research_steps, api, longformEnabled, now, budget>>
  /\ UNCHANGED aux

\* The places where the executor awaits chatCompletion outside any try:
\* planSteps, summarizeStep, buildFinalReport and runCriticEvaluation.
ChatCallAt(t) ==
  \/ tick[t].pc \in {"plan", "search", "synth"}
  \/ tick[t].pc = "section_draft" /\ tick[t].sec = NumSections

\* What a failing call makes processJob reject with: a store operation
\* fails anywhere, chatCompletion throws where it is awaited.
ThrowKinds(t) == {"store"} \cup (IF ChatCallAt(t) THEN {"chat"} ELSE {})

\* A store or tool call of the executor throws something that is not a
\* JobControlError: processJob rejects.
Throw(t) ==
  /\ budget.faults > 0
  /\ budget' = [budget EXCEPT !.faults = @ - 1]
  /\ Executing(t)
  /\ \E kind \in ThrowKinds(t) : tick' = [tick EXCEPT ![t] = Rejected(t, kind)]
  /\ UNCHANGED <<research_jobs, research_steps, notes, running, api,
                 longformEnabled, now>>
  /\ UNCHANGED aux

\* tick: .catch(error => updateJobStatus(job.id, "error", {error: String(error)}))
\* .finally(() => this.running -= 1)
ErrorFieldsNoText(kind) == [error |-> NULL]

ErrorFields(kind) ==
  [error |-> CASE kind = "control" -> ControlErrorText
               [] kind = "chat" -> ChatErrorText
               [] kind = "error" -> PlanErrorText
               [] OTHER -> ErrorText]

CatchError(t) ==
  /\ tick[t].pc = "catch_error"
  /\ ~Locked(tick[t].job)
  /\ research_jobs' = UpdateJobStatus(tick[t].job, "error", ErrorFields(tick[t].thrown))
  /\ Settled(t)
  /\ UNCHANGED <<research_steps, notes, api, longformEnabled, now, budget>>
  /\ UNCHANGED aux

\* The updateJobStatus call of the catch rejects as well: nothing is
\* written, and the finally still gives the slot back.
CatchFail(t) ==
  /\ budget.faults > 0
  /\ budget' = [budget EXCEPT !.faults = @ - 1]
  /\ tick[t].pc = "catch_error"
  /\ Settled(t)
  /\ UNCHANGED <<research_jobs, research_steps, notes, api, longformEnabled, now>>
  /\ UNCHANGED aux


\* ------------------------------------------------------------ control API
\* cancelJobById: fetchJobOrThrow, then the status test.
ApiCancel(a, j) ==
  /\ budget.calls > 0
  /\ budget' = [budget EXCEPT !.calls = @ - 1]
  /\ api[a].op = "idle"
  /\ research_jobs[j].status \notin {"cancelled", "completed"}
  /\ api' = [api EXCEPT ![a] = [IdleApi EXCEPT !.op = "cancel", !.job = j]]
  /\ UNCHANGED <<research_jobs, research_steps, notes, tick, running,
                 longformEnabled, now>>
  /\ UNCHANGED aux

\* pauseJobById: fetchJobOrThrow, then the status test.
ApiPause(a, j) ==
  /\ budget.calls > 0
  /\ budget' = [budget EXCEPT !.calls = @ - 1]
  /\ api[a].op = "idle"
  /\ research_jobs[j].status \in {"running", "queued"}
  /\ api' = [api EXCEPT ![a] = [IdleApi EXCEPT !.op = "pause", !.job = j]]
  /\ UNCHANGED <<research_jobs, research_steps, notes, tick, running,
                 longformEnabled, now>>
  /\ UNCHANGED aux

\* startJobById: fetchJobOrThrow, then the status test.
ApiStart(a, j) ==
  /\ budget.calls > 0
  /\ budget' = [budget EXCEPT !.calls = @ - 1]
  /\ api[a].op = "idle"
  /\ research_jobs[j].status = "paused"
  /\ api' = [api EXCEPT ![a] = [IdleApi EXCEPT !.op = "start", !.job = j]]
  /\ UNCHANGED <<research_jobs, research_steps, notes, tick, running,
                 longformEnabled, now>>
  /\ UNCHANGED aux

\* The merge that keeps nothing of the stored metadata.
MergeResponsesOnly(stored, responses) == responses

\* submitClarification: { ...(job.metadata ?? {}), ...responses }; a key that
\* the responses do not carry reads as undefined and is not copied.
MergeResponses(stored, responses) ==
  [key \in MetadataKeys |->
     IF responses[key] # Undefined THEN responses[key] ELSE stored[key]]

\* submitClarification: fetchJobOrThrow, the status test, the merge, and
\* nextStatus from the prompts that remain after the merge.
ApiClarify(a, j, responses) ==
  /\ budget.calls > 0
  /\ budget' = [budget EXCEPT !.calls = @ - 1]
  /\ api[a].op = "idle"
  /\ research_jobs[j].status = "clarification_required"
  /\ LET mergedMetadata == MergeResponses(metadata[j], responses)
         remaining == CollectClarificationPrompts(mergedMetadata)
     IN api' = [api EXCEPT ![a] =
                  [op |-> IF remaining # {} THEN "clarify_again" ELSE "clarify_queue",
                   job |-> j, responses |-> responses,
                   metadata |-> mergedMetadata]]
  /\ UNCHANGED <<research_jobs, research_steps, notes, tick, running,
                 longformEnabled, now>>
  /\ UNCHANGED aux

\* A start that clears the error only.
StartFieldsErrorOnly == [error |-> NULL]

\* startJobById: the fields of its updateJobStatus call.
StartFields ==
  [error |-> NULL, final_report |-> NULL, report_assets |-> NULL,
   completed_at |-> NULL]

ClarifyFields == [error |-> NULL]

\* The metadata field of the updateJobStatus call of submitClarification.
ApiWriteMetadata(a) ==
  IF api[a].op \in {"clarify_queue", "clarify_again"}
    THEN [metadata EXCEPT ![api[a].job] = api[a].metadata]
    ELSE metadata

\* The clarification responses of a request that answers nothing, and of
\* one that answers all five prompts.
EmptyResponses == NoMetadata
FullResponses == FullMetadata

\* The updateJobStatus call that ends each of the four handlers.
ApiWriteRows(op, j) ==
  CASE op = "cancel" -> UpdateJobStatus(j, "cancelled", NoFields)
    [] op = "pause" -> UpdateJobStatus(j, "paused", NoFields)
    [] op = "start" -> UpdateJobStatus(j, "queued", StartFields)
    [] op = "clarify_queue" -> UpdateJobStatus(j, "queued", ClarifyFields)
    [] op = "clarify_again" ->
         UpdateJobStatus(j, "clarification_required", ClarifyFields)

ApiWrite(a) ==
  /\ api[a].op # "idle"
  /\ ~Locked(api[a].job)
  /\ research_jobs' = ApiWriteRows(api[a].op, api[a].job)
  /\ metadata' = ApiWriteMetadata(a)
  /\ api' = [api EXCEPT ![a] = IdleApi]
  /\ UNCHANGED <<research_steps, notes, tick, running, longformEnabled, now, budget>>
  /\ UNCHANGED <<sources, citation_ledger, writer, request, pack>>

\* ------------------------------------------------------------------ clock
AdvanceClock ==
  /\ budget.clock > 0
  /\ budget' = [budget EXCEPT !.clock = @ - 1]
  /\ now' = now + ClockStepMs
  /\ UNCHANGED <<research_jobs, research_steps, notes, tick, running, api,
                 longformEnabled>>
  /\ UNCHANGED aux

\* ------------------------------------------------------------------- Next
Next ==
  \/ \E t \in Ticks : Fire(t)
  \/ \E t \in Ticks : RescueScan(t)
  \/ \E t \in Ticks : RescueUpdateJobs(t)
  \/ \E t \in Ticks : RescueUpdateSteps(t)
  \/ \E t \in Ticks : RescueFail(t)
  \/ \E t \in Ticks : ClaimSelect(t)
  \/ \E t \in Ticks : ClaimUpdate(t)
  \/ \E t \in Ticks : LoadSteps(t)
  \/ \E t \in Ticks : ControlCheck(t)
  \/ \E t \in Ticks : PlanSteps(t)
  \/ \E t \in Ticks : InsertStep(t)
  \/ \E t \in Ticks : TouchAfterPlan(t)
  \/ \E t \in Ticks : StepRunning(t)
  \/ \E t \in Ticks : RunSearch(t)
  \/ \E t \in Ticks : StepNote(t)
  \/ \E t \in Ticks : StepCompleted(t)
  \/ \E t \in Ticks : BuildFinalReport(t)
  \/ \E t \in Ticks : RecordCritic(t)
  \/ \E t \in Ticks : BuildArtifacts(t)
  \/ \E t \in Ticks : Complete(t)
  \/ \E t \in Ticks : CrossSummary(t)
  \/ \E t \in Ticks : Throw(t)
  \/ \E t \in Ticks : CatchError(t)
  \/ \E t \in Ticks : CatchFail(t)
  \/ \E a \in ApiIds, j \in Jobs : ApiCancel(a, j)
  \/ \E a \in ApiIds, j \in Jobs : ApiPause(a, j)
  \/ \E a \in ApiIds, j \in Jobs : ApiStart(a, j)
  \/ \E a \in ApiIds, j \in Jobs, responses \in {EmptyResponses, FullResponses} :
       ApiClarify(a, j, responses)
  \/ \E a \in ApiIds : ApiWrite(a)
  \/ AdvanceClock

Spec == Init /\ [][Next]_vars

TypeOK ==
  /\ \A j \in Jobs : research_jobs[j].status \in JobStatus
  /\ running \in 0..NumTicks


\* ------------------------------------------------- the rescue sweep, timed
\* Ticks and executors with a longer clock and no control API request or
\* failing call: the rows the sweep can meet and what it does with them.
InitRescue ==
  /\ research_jobs \in
       [1..NumJobs -> { InitJob(Epoch, "queued", d) : d \in MaxDurationChoices }]
  /\ research_steps = [j \in 1..NumJobs |-> <<>>]
  /\ notes = [j \in 1..NumJobs |-> <<>>]
  /\ tick = [t \in Ticks |-> IdleTick]
  /\ running = 0
  /\ api = [a \in ApiIds |-> IdleApi]
  /\ longformEnabled = FALSE
  /\ now = Epoch
  /\ budget = [fires |-> RescueFires, calls |-> 0, faults |-> 0,
               clock |-> RescueClock]
  /\ AuxInit

NextRescue ==
  \/ \E t \in Ticks : Fire(t)
  \/ \E t \in Ticks : RescueScan(t)
  \/ \E t \in Ticks : RescueUpdateJobs(t)
  \/ \E t \in Ticks : RescueUpdateSteps(t)
  \/ \E t \in Ticks : ClaimSelect(t)
  \/ \E t \in Ticks : ClaimUpdate(t)
  \/ \E t \in Ticks : LoadSteps(t)
  \/ \E t \in Ticks : ControlCheck(t)
  \/ \E t \in Ticks : PlanSteps(t)
  \/ \E t \in Ticks : InsertStep(t)
  \/ \E t \in Ticks : TouchAfterPlan(t)
  \/ \E t \in Ticks : StepRunning(t)
  \/ \E t \in Ticks : RunSearch(t)
  \/ \E t \in Ticks : StepNote(t)
  \/ \E t \in Ticks : StepCompleted(t)
  \/ \E t \in Ticks : BuildFinalReport(t)
  \/ \E t \in Ticks : RecordCritic(t)
  \/ \E t \in Ticks : BuildArtifacts(t)
  \/ \E t \in Ticks : Complete(t)
  \/ \E t \in Ticks : CrossSummary(t)
  \/ \E t \in Ticks : CatchError(t)
  \/ AdvanceClock

SpecRescue == InitRescue /\ [][NextRescue]_vars


\* --------------------------------------------------- the worker that dies
\* The worker process exits while a job it claimed has a step in status
\* running: its promise chains are gone with it. The process that replaces
\* it starts with running = 0 and a fresh interval timer.
HasRunningStep(j) ==
  \E k \in DOMAIN research_steps[j] : research_steps[j][k].status = "running"

WorkerDies ==
  /\ budget.faults > 0
  /\ budget' = [budget EXCEPT !.faults = @ - 1]
  /\ \E t \in Ticks : Executing(t) /\ HasRunningStep(tick[t].job)
  /\ tick' = [t \in Ticks |-> IdleTick]
  /\ running' = 0
  /\ UNCHANGED <<research_jobs, research_steps, notes, api, longformEnabled,
                 now>>
  /\ UNCHANGED aux

InitStall ==
  /\ research_jobs \in
       [1..NumJobs -> { InitJob(Epoch, "queued", d) : d \in MaxDurationChoices }]
  /\ research_steps = [j \in 1..NumJobs |-> <<>>]
  /\ notes = [j \in 1..NumJobs |-> <<>>]
  /\ tick = [t \in Ticks |-> IdleTick]
  /\ running = 0
  /\ api = [a \in ApiIds |-> IdleApi]
  /\ longformEnabled = FALSE
  /\ now = Epoch
  /\ budget = [fires |-> RescueFires, calls |-> 0, faults |-> MaxFaults,
               clock |-> RescueClock]
  /\ AuxInit

\* What a tick that has fired, and the executor it starts, do next.
TickStep(t) ==
  \/ RescueScan(t)
  \/ RescueUpdateJobs(t)
  \/ RescueUpdateSteps(t)
  \/ ClaimSelect(t)
  \/ ClaimUpdate(t)
  \/ LoadSteps(t)
  \/ ControlCheck(t)
  \/ PlanSteps(t)
  \/ InsertStep(t)
  \/ TouchAfterPlan(t)
  \/ StepRunning(t)
  \/ RunSearch(t)
  \/ StepNote(t)
  \/ StepCompleted(t)
  \/ BuildFinalReport(t)
  \/ RecordCritic(t)
  \/ BuildArtifacts(t)
  \/ Complete(t)
  \/ CrossSummary(t)
  \/ CatchError(t)

NextStall ==
  \/ \E t \in Ticks : Fire(t)
  \/ \E t \in Ticks : TickStep(t)
  \/ WorkerDies
  \/ AdvanceClock

\* Every await of a tick or an executor resolves: a live chain goes on.
SpecStall ==
  InitStall /\ [][NextStall]_vars /\ \A t \in Ticks : WF_vars(TickStep(t))

\* ----------------------------------------------------------- the claim race
\* K = NumTicks claimers, each about to run claimNextQueuedJob once, against
\* a table of which Q rows are queued.
InitClaim ==
  /\ research_jobs \in
       [1..NumRaceJobs ->
          { InitJob(c, s, 3600) :
              c \in {Epoch, Epoch + ClockStepMs},
              s \in {"queued", "clarification_required", "paused"} }]
  /\ research_steps = [j \in 1..NumRaceJobs |-> <<>>]
  /\ notes = [j \in 1..NumRaceJobs |-> <<>>]
  /\ tick = [t \in Ticks |-> [IdleTick EXCEPT !.pc = "claim_select"]]
  /\ running = 0
  /\ api = [a \in ApiIds |-> IdleApi]
  /\ longformEnabled = FALSE
  /\ now = Epoch + 2 * ClockStepMs
  /\ budget = [fires |-> 0, calls |-> 0, faults |-> 0, clock |-> 0]
  /\ AuxInit

NextClaim ==
  \/ \E t \in Ticks : ClaimSelect(t)
  \/ \E t \in Ticks : ClaimUpdate(t)

SpecClaim == InitClaim /\ [][NextClaim]_vars


\* ------------------------------------------------------ the tick sequence
\* Ticks against a table of queued jobs and of jobs a worker that is gone
\* left running: sweep, gate and claim, with a sweep query or the claimed
\* job's first store call failing, and no executor getting further.
InitTick ==
  /\ research_jobs \in
       [1..NumOverlapJobs ->
          { InitJob(Epoch, "queued", 3600),
            ClaimedRow(InitJob(Epoch, "queued", 3600), Epoch) }]
  /\ research_steps = [j \in 1..NumOverlapJobs |-> <<>>]
  /\ notes = [j \in 1..NumOverlapJobs |-> <<>>]
  /\ tick = [t \in Ticks |-> IdleTick]
  /\ running = 0
  /\ api = [a \in ApiIds |-> IdleApi]
  /\ longformEnabled = FALSE
  /\ now = Epoch
  /\ budget = [fires |-> OverlapFires, calls |-> 0, faults |-> MaxFaults,
               clock |-> MaxClock]
  /\ AuxInit

NextTick ==
  \/ \E t \in Ticks : Fire(t)
  \/ \E t \in Ticks : RescueScan(t)
  \/ \E t \in Ticks : RescueUpdateJobs(t)
  \/ \E t \in Ticks : RescueUpdateSteps(t)
  \/ \E t \in Ticks : RescueFail(t)
  \/ \E t \in Ticks : ClaimSelect(t)
  \/ \E t \in Ticks : ClaimUpdate(t)
  \/ \E t \in Ticks : Throw(t)
  \/ \E t \in Ticks : CatchError(t)
  \/ AdvanceClock

SpecTick == InitTick /\ [][NextTick]_vars

\* ------------------------------------------------------- the order of claims
\* The tick sequence against jobs of different age: queued ones, and ones a
\* worker that is gone left running, which the sweep gives back to the queue.
InitFifo ==
  /\ research_jobs \in
       [1..NumOverlapJobs ->
          { InitJob(c, "queued", 3600) : c \in {Epoch, Epoch + ClockStepMs} }
            \cup { ClaimedRow(InitJob(c, "queued", 3600), c) :
                      c \in {Epoch, Epoch + ClockStepMs} }]
  /\ research_steps = [j \in 1..NumOverlapJobs |-> <<>>]
  /\ notes = [j \in 1..NumOverlapJobs |-> <<>>]
  /\ tick = [t \in Ticks |-> IdleTick]
  /\ running = 0
  /\ api = [a \in ApiIds |-> IdleApi]
  /\ longformEnabled = FALSE
  /\ now = Epoch + ClockStepMs
  /\ budget = [fires |-> OverlapFires, calls |-> 0, faults |-> MaxFaults,
               clock |-> MaxClock]
  /\ AuxInit

SpecFifo == InitFifo /\ [][NextTick]_vars

\* ------------------------------------------- a halt after a worker's death
\* One job that a worker that is gone left running with its first step in
\* status running and a heartbeat past the threshold, the ticks of the
\* worker that replaces it, and one pause or cancel request.
InitHalt ==
  /\ research_jobs =
       [j \in 1..NumJobs |-> ClaimedRow(InitJob(Epoch, "queued", 3600), Epoch)]
  /\ research_steps =
       [j \in 1..NumJobs |->
          <<[step_order |-> 1, status |-> "running",
             title |-> FallbackPlan[1].title,
             tool_hint |-> FallbackPlan[1].tool_hint, result |-> NULL]>>]
  /\ notes = [j \in 1..NumJobs |-> <<>>]
  /\ tick = [t \in Ticks |-> IdleTick]
  /\ running = 0
  /\ api = [a \in ApiIds |-> IdleApi]
  /\ longformEnabled = FALSE
  /\ now = Epoch + 2 * ClockStepMs
  /\ budget = [fires |-> ControlFires, calls |-> MaxCalls, faults |-> 0,
               clock |-> 0]
  /\ AuxInit

NextHalt ==
  \/ \E t \in Ticks : Fire(t)
  \/ \E t \in Ticks : RescueScan(t)
  \/ \E t \in Ticks : RescueUpdateJobs(t)
  \/ \E t \in Ticks : RescueUpdateSteps(t)
  \/ \E t \in Ticks : ClaimSelect(t)
  \/ \E t \in Ticks : ClaimUpdate(t)
  \/ \E t \in Ticks : LoadSteps(t)
  \/ \E t \in Ticks : ControlCheck(t)
  \/ \E t \in Ticks : TouchAfterPlan(t)
  \/ \E t \in Ticks : StepRunning(t)
  \/ \E t \in Ticks : RunSearch(t)
  \/ \E t \in Ticks : StepNote(t)
  \/ \E t \in Ticks : StepCompleted(t)
  \/ \E t \in Ticks : BuildFinalReport(t)
  \/ \E t \in Ticks : RecordCritic(t)
  \/ \E t \in Ticks : BuildArtifacts(t)
  \/ \E t \in Ticks : Complete(t)
  \/ \E t \in Ticks : CrossSummary(t)
  \/ \E t \in Ticks : CatchError(t)
  \/ \E a \in ApiIds, j \in Jobs : ApiCancel(a, j)
  \/ \E a \in ApiIds, j \in Jobs : ApiPause(a, j)
  \/ \E a \in ApiIds : ApiWrite(a)

SpecHalt == InitHalt /\ [][NextHalt]_vars

\* ------------------------------------------------------- overlapping ticks
\* Two ticks and a table of queued jobs, with no control API request, no
\* failing call and no sweep that finds anything: what ticks that overlap
\* launch.
InitOverlap ==
  /\ research_jobs = [j \in 1..NumOverlapJobs |-> InitJob(Epoch, "queued", 3600)]
  /\ research_steps = [j \in 1..NumOverlapJobs |-> <<>>]
  /\ notes = [j \in 1..NumOverlapJobs |-> <<>>]
  /\ tick = [t \in Ticks |-> IdleTick]
  /\ running = 0
  /\ api = [a \in ApiIds |-> IdleApi]
  /\ longformEnabled = FALSE
  /\ now = Epoch
  /\ budget = [fires |-> OverlapFires, calls |-> 0, faults |-> 0, clock |-> 0]
  /\ AuxInit

NextOverlap ==
  \/ \E t \in Ticks : Fire(t)
  \/ \E t \in Ticks : RescueScan(t)
  \/ \E t \in Ticks : ClaimSelect(t)
  \/ \E t \in Ticks : ClaimUpdate(t)
  \/ \E t \in Ticks : LoadSteps(t)
  \/ \E t \in Ticks : ControlCheck(t)
  \/ \E t \in Ticks : PlanSteps(t)
  \/ \E t \in Ticks : InsertStep(t)
  \/ \E t \in Ticks : TouchAfterPlan(t)
  \/ \E t \in Ticks : StepRunning(t)
  \/ \E t \in Ticks : RunSearch(t)
  \/ \E t \in Ticks : StepNote(t)
  \/ \E t \in Ticks : StepCompleted(t)
  \/ \E t \in Ticks : BuildFinalReport(t)
  \/ \E t \in Ticks : RecordCritic(t)
  \/ \E t \in Ticks : BuildArtifacts(t)
  \/ \E t \in Ticks : Complete(t)
  \/ \E t \in Ticks : CrossSummary(t)

SpecOverlap == InitOverlap /\ [][NextOverlap]_vars

\* ------------------------------------------------- control API against ticks
\* One job, two ticks and a sequence of control API requests, with no failing
\* call and a clock that stands still.
InitControl ==
  /\ research_jobs \in
       [1..NumJobs -> { InitJob(Epoch, s, 3600) :
                          s \in {"queued", "clarification_required"} }]
  /\ research_steps = [j \in 1..NumJobs |-> <<>>]
  /\ notes = [j \in 1..NumJobs |-> <<>>]
  /\ tick = [t \in Ticks |-> IdleTick]
  /\ running = 0
  /\ api = [a \in ApiIds |-> IdleApi]
  /\ longformEnabled = FALSE
  /\ now = Epoch
  /\ budget = [fires |-> ControlFires, calls |-> ControlCalls, faults |-> 0,
               clock |-> 0]
  /\ AuxInit

NextControl ==
  \/ \E t \in Ticks : Fire(t)
  \/ \E t \in Ticks : RescueScan(t)
  \/ \E t \in Ticks : ClaimSelect(t)
  \/ \E t \in Ticks : ClaimUpdate(t)
  \/ \E t \in Ticks : LoadSteps(t)
  \/ \E t \in Ticks : ControlCheck(t)
  \/ \E t \in Ticks : PlanSteps(t)
  \/ \E t \in Ticks : InsertStep(t)
  \/ \E t \in Ticks : TouchAfterPlan(t)
  \/ \E t \in Ticks : StepRunning(t)
  \/ \E t \in Ticks : RunSearch(t)
  \/ \E t \in Ticks : StepNote(t)
  \/ \E t \in Ticks : StepCompleted(t)
  \/ \E t \in Ticks : BuildFinalReport(t)
  \/ \E t \in Ticks : RecordCritic(t)
  \/ \E t \in Ticks : BuildArtifacts(t)
  \/ \E t \in Ticks : Complete(t)
  \/ \E t \in Ticks : CrossSummary(t)
  \/ \E t \in Ticks : CatchError(t)
  \/ \E a \in ApiIds, j \in Jobs : ApiCancel(a, j)
  \/ \E a \in ApiIds, j \in Jobs : ApiPause(a, j)
  \/ \E a \in ApiIds, j \in Jobs : ApiStart(a, j)
  \/ \E a \in ApiIds, j \in Jobs, responses \in {EmptyResponses, FullResponses} :
       ApiClarify(a, j, responses)
  \/ \E a \in ApiIds : ApiWrite(a)

SpecControl == InitControl /\ [][NextControl]_vars


\* ---------------------------------------------------------- clarification
\* What a clarification request may carry for a key: nothing, a blank
\* string or an answer.
ResponseValues == {Undefined, Str(<<" ">>), Str(<<"x">>)}

ClarifyResponses ==
  { responses \in [MetadataKeys -> ResponseValues] : responses["source"] = Undefined }

\* One job as the intake or an earlier pause left it, and a sequence of
\* control API requests with any clarification responses; no tick.
InitClarify ==
  /\ research_jobs \in
       [1..NumJobs -> { InitJob(Epoch, s, 3600) :
                          s \in {"queued", "clarification_required", "paused"} }]
  /\ research_steps = [j \in 1..NumJobs |-> <<>>]
  /\ notes = [j \in 1..NumJobs |-> <<>>]
  /\ tick = [t \in Ticks |-> IdleTick]
  /\ running = 0
  /\ api = [a \in ApiIds |-> IdleApi]
  /\ longformEnabled = FALSE
  /\ now = Epoch
  /\ budget = [fires |-> 0, calls |-> ClarifyCalls, faults |-> 0, clock |-> 0]
  /\ AuxInit

NextClarify ==
  \/ \E a \in ApiIds, j \in Jobs : ApiCancel(a, j)
  \/ \E a \in ApiIds, j \in Jobs : ApiPause(a, j)
  \/ \E a \in ApiIds, j \in Jobs : ApiStart(a, j)
  \/ \E a \in ApiIds, j \in Jobs, responses \in ClarifyResponses :
       ApiClarify(a, j, responses)
  \/ \E a \in ApiIds : ApiWrite(a)

SpecClarify == InitClarify /\ [][NextClarify]_vars

\* -------------------------------------------------------- citation ledger
Urls == 1..NumUrls
Titles == 1..NumTitles

\* executeStep: key = raw/<job>/<stepOrder>-<i + 1>.json; putObject returns
\* the URL of that key.
RawStorageUrl(jobId, stepOrder, i) == <<jobId, stepOrder, i>>

\* executeStep: the source pushed for result i of a step, as attachSource
\* stores it with page note i.
FetchedSource(jobId, stepOrder, i, url, title) ==
  [step_order |-> stepOrder, i |-> i, url |-> url, title |-> title,
   raw_storage_url |-> RawStorageUrl(jobId, stepOrder, i)]

\* hashSource: sha1 of "url|title|raw_storage_url".
HashSource(source) == <<source.url, source.title, source.raw_storage_url>>

\* listSourcesByJob: the rows in the order the steps attached them.
RECURSIVE SourceOrder(_)
SourceOrder(rows) ==
  IF rows = {} THEN <<>>
  ELSE LET first == CHOOSE a \in rows : \A b \in rows :
                      \/ a.step_order < b.step_order
                      \/ a.step_order = b.step_order /\ a.i <= b.i
       IN <<first>> \o SourceOrder(rows \ {first})

\* findCitationByHash
FindCitationByHash(jobId, hash) ==
  { e \in citation_ledger[jobId] : e.source_hash = hash }

\* getNextCitationNumber: COALESCE(MAX(citation_number), 0) + 1
RECURSIVE MaxNumber(_)
MaxNumber(rows) ==
  IF rows = {} THEN 0
  ELSE LET e == CHOOSE x \in rows : TRUE
       IN Max(e.citation_number, MaxNumber(rows \ {e}))

GetNextCitationNumber(jobId) == MaxNumber(citation_ledger[jobId]) + 1

\* The unique indexes without the one on (job_id, source_hash).
NumberConflictOnly(jobId, hash, number) ==
  \E e \in citation_ledger[jobId] : e.citation_number = number

\* idx_citation_ledger_job_hash and idx_citation_ledger_job_number: the
\* INSERT is rejected when either finds its key.
UniqueViolation(jobId, hash, number) ==
  \E e \in citation_ledger[jobId] :
    e.source_hash = hash \/ e.citation_number = number

\* The job whose report the writers render.
LedgerJob == 1

\* generateSectionDraft reaches the notes with sources: the loop of
\* renderNoteWithCitations starts over the sources of the job.
StartRender(w) ==
  /\ writer[w].pc = "idle"
  /\ writer[w].runs < MaxRenders
  /\ research_jobs[LedgerJob].status = "running"
  /\ writer' = [writer EXCEPT ![w] =
       [IdleWriter EXCEPT !.pc = "find", !.todo = SourceOrder(sources[LedgerJob]),
                          !.runs = writer[w].runs + 1]]
  /\ UNCHANGED <<research_jobs, research_steps, notes, tick, running, api,
                 longformEnabled, now, budget, sources, citation_ledger>>
  /\ UNCHANGED <<request, pack, metadata>>

\* ensureCitationNumber: hashSource, findCitationByHash; an entry that exists
\* gives its number.  The loop ends when no source is left.
FindCitation(w) ==
  /\ writer[w].pc = "find"
  /\ IF writer[w].todo = <<>>
       THEN writer' = [writer EXCEPT ![w].pc = "idle"]
       ELSE LET hash == HashSource(Head(writer[w].todo))
                found == FindCitationByHash(LedgerJob, hash)
            IN IF found = {}
                 THEN writer' = [writer EXCEPT ![w].pc = "next", ![w].hash = hash]
                 ELSE writer' = [writer EXCEPT
                        ![w].todo = Tail(@),
                        ![w].citations =
                          Append(@, (CHOOSE e \in found : TRUE).citation_number)]
  /\ UNCHANGED <<research_jobs, research_steps, notes, tick, running, api,
                 longformEnabled, now, budget, sources, citation_ledger>>
  /\ UNCHANGED <<request, pack, metadata>>

\* ensureCitationNumber: const next = await getNextCitationNumber(jobId)
ReadNextNumber(w) ==
  /\ writer[w].pc = "next"
  /\ writer' = [writer EXCEPT ![w].pc = "insert",
                              ![w].next = GetNextCitationNumber(LedgerJob)]
  /\ UNCHANGED <<research_jobs, research_steps, notes, tick, running, api,
                 longformEnabled, now, budget, sources, citation_ledger>>
  /\ UNCHANGED <<request, pack, metadata>>

\* ensureCitationNumber: insertCitationLedgerEntry.  A rejected INSERT throws:
\* nothing catches it before the catch of Worker.tick.
InsertCitation(w) ==
  /\ writer[w].pc = "insert"
  /\ IF UniqueViolation(LedgerJob, writer[w].hash, writer[w].next)
       THEN /\ writer' = [writer EXCEPT ![w].pc = "failed"]
            /\ UNCHANGED citation_ledger
       ELSE /\ citation_ledger' = [citation_ledger EXCEPT ![LedgerJob] =
                 @ \cup {[source_hash |-> writer[w].hash,
                          citation_number |-> writer[w].next]}]
            /\ writer' = [writer EXCEPT ![w].pc = "find", ![w].todo = Tail(@),
                            ![w].citations = Append(@, writer[w].next)]
  /\ UNCHANGED <<research_jobs, research_steps, notes, tick, running, api,
                 longformEnabled, now, budget, sources>>
  /\ UNCHANGED <<request, pack, metadata>>

\* The rejection leaves processJob through its rethrow; the catch of
\* Worker.tick writes status error.
RenderFailed(w) ==
  /\ writer[w].pc = "failed"
  /\ research_jobs' = UpdateJobStatus(LedgerJob, "error", ErrorFields("error"))
  /\ writer' = [writer EXCEPT ![w].pc = "idle", ![w].runs = MaxRenders]
  /\ UNCHANGED <<research_steps, notes, tick, running, api, longformEnabled, now,
                 budget, sources, citation_ledger>>
  /\ UNCHANGED <<request, pack, metadata>>

\* One running job whose steps have attached their sources, and the section
\* drafts of its executors (one, or two after a requeue that left the first
\* alive, or a resumed one) about to render them.
InitLedger ==
  /\ research_jobs = [j \in {LedgerJob} |->
       [InitJob(Epoch, "running", 3600) EXCEPT !.started_at = Epoch]]
  /\ research_steps = [j \in {LedgerJob} |-> <<>>]
  /\ notes = [j \in {LedgerJob} |-> <<>>]
  /\ tick = [t \in Ticks |-> IdleTick]
  /\ running = 0
  /\ api = [a \in ApiIds |-> IdleApi]
  /\ longformEnabled = TRUE
  /\ now = Epoch
  /\ budget = [fires |-> 0, calls |-> 0, faults |-> 0, clock |-> 0]
  /\ \E steps \in SUBSET (1..MaxSteps) :
       /\ steps # {}
       /\ \E page \in [steps \X (1..MaxPageNotes) -> Urls \X Titles] :
            sources = [j \in {LedgerJob} |->
              { FetchedSource(j, k[1], k[2], page[k][1], page[k][2]) :
                  k \in steps \X (1..MaxPageNotes) }]
  /\ citation_ledger = [j \in {LedgerJob} |-> {}]
  /\ writer = [w \in Writers |-> IdleWriter]
  /\ request = NoRequest
  /\ pack = NoPack
  /\ metadata = [j \in {LedgerJob} |-> FullMetadata]

NextLedger ==
  \/ \E w \in Writers : StartRender(w)
  \/ \E w \in Writers : FindCitation(w)
  \/ \E w \in Writers : ReadNextNumber(w)
  \/ \E w \in Writers : InsertCitation(w)
  \/ \E w \in Writers : RenderFailed(w)

SpecLedger == InitLedger /\ [][NextLedger]_vars

\* ------------------------------------------------------------------ intake
\* metadataSchema: what createSchema.parse lets through for a key.
StringValues == { Str(chars) : chars \in Strings }
ArrayValues ==
  { Arr(entries) : entries \in UNION { [1..n -> StringValues] : n \in 0..MaxEntries } }

SchemaValues(key) ==
  IF key \in {"data_modalities", "integration_targets"}
    THEN {Undefined} \cup StringValues \cup ArrayValues
    ELSE {Undefined} \cup StringValues

\* The metadataDefaults argument: none for POST /research, the source for
\* POST /ui-api/research.
NoDefaults == [key \in {} |-> Undefined]
UiDefaults == [key \in {"source"} |-> Str(<<"x">>)]

\* createJobFromPayload: the metadata with the defaults filled in.
MergeDefaults(bag, defaults) ==
  [key \in MetadataKeys |->
     IF key \in DOMAIN defaults /\ bag[key] = Undefined
       THEN defaults[key] ELSE bag[key]]

\* createJobFromPayload: initialStatus
InitialStatus(bag) ==
  IF CollectClarificationPrompts(bag) # {} THEN "clarification_required"
  ELSE "queued"

\* POST /research or /ui-api/research: createJobFromPayload and enqueueJob,
\* and the job_id of the reply.
CreateJob ==
  /\ request # NoRequest
  /\ request.job = NULL
  /\ LET merged == MergeDefaults(request.metadata, request.defaults)
     IN /\ research_jobs' =
             Append(research_jobs,
                    InitJob(now, InitialStatus(merged), request.max_duration))
        /\ metadata' = Append(metadata, merged)
  /\ research_steps' = Append(research_steps, <<>>)
  /\ notes' = Append(notes, <<>>)
  /\ sources' = Append(sources, {})
  /\ citation_ledger' = Append(citation_ledger, {})
  /\ request' = [request EXCEPT !.job = Len(research_jobs) + 1]
  /\ UNCHANGED <<tick, running, api, longformEnabled, now, budget, writer, pack>>

\* An empty queue and one request, with any metadata the schema accepts.
InitIntake ==
  /\ research_jobs = <<>>
  /\ research_steps = <<>>
  /\ notes = <<>>
  /\ tick = [t \in Ticks |-> IdleTick]
  /\ running = 0
  /\ api = [a \in ApiIds |-> IdleApi]
  /\ longformEnabled = FALSE
  /\ now = Epoch
  /\ budget = [fires |-> 0, calls |-> 0, faults |-> 0, clock |-> 0]
  /\ sources = <<>>
  /\ citation_ledger = <<>>
  /\ writer = [w \in Writers |-> IdleWriter]
  /\ pack = NoPack
  /\ metadata = <<>>
  /\ \E th \in SchemaValues("time_horizon"), rf \in SchemaValues("region_focus"),
        dm \in SchemaValues("data_modalities"),
        it \in SchemaValues("integration_targets"),
        qc \in SchemaValues("quality_constraints"), src \in SchemaValues("source"),
        defaults \in {NoDefaults, UiDefaults}, d \in MaxDurationChoices :
       request = [metadata |-> [time_horizon |-> th, region_focus |-> rf,
                                data_modalities |-> dm, integration_targets |-> it,
                                quality_constraints |-> qc, source |-> src],
                  defaults |-> defaults, max_duration |-> d, job |-> NULL]

NextIntake == CreateJob

SpecIntake == InitIntake /\ [][NextIntake]_vars

\* ------------------------------------------------------------ context pack
\* The comparator of selectNotesForSynthesis is negative: a sorts before b.
Before(a, b) ==
  \/ a.importance > b.importance
  \/ a.importance = b.importance /\ a.token_count > b.token_count

\* Array.prototype.sort is stable: a note goes behind every note that it
\* does not sort before.
RECURSIVE InsertSorted(_, _)
InsertSorted(sorted, note) ==
  IF sorted = <<>> THEN <<note>>
  ELSE IF Before(note, Head(sorted)) THEN <<note>> \o sorted
  ELSE <<Head(sorted)>> \o InsertSorted(Tail(sorted), note)

\* selectNotesForSynthesis
RECURSIVE SelectNotesForSynthesis(_)
SelectNotesForSynthesis(rows) ==
  IF rows = <<>> THEN <<>>
  ELSE InsertSorted(SelectNotesForSynthesis(SubSeq(rows, 1, Len(rows) - 1)),
                    rows[Len(rows)])

\* A test that lets every note into the pack.
FitsAlways(remaining, note) == TRUE

\* buildFinalReport: the negation of "budget - note.token_count <= 0".
Fits(remaining, note) == ~(remaining - note.token_count <= 0)

\* buildFinalReport: listNotes has returned; selectNotesForSynthesis and
\* the budget from the configuration.
SelectNotes ==
  /\ pack.pc = "list"
  /\ pack' = [pack EXCEPT !.pc = "scan",
                          !.selected = SelectNotesForSynthesis(pack.notes),
                          !.k = 1, !.budget = pack.B, !.packed = <<>>]
  /\ UNCHANGED <<research_jobs, research_steps, notes, tick, running, api,
                 longformEnabled, now, budget, sources, citation_ledger, writer,
                 request, metadata>>

\* buildFinalReport: one turn of "for (const note of selected)": break at
\* the cap, continue over a note that does not fit, push otherwise; the
\* loop ends behind the last note.
ScanNote ==
  /\ pack.pc = "scan"
  /\ IF pack.k > Len(pack.selected) \/ Len(pack.packed) >= pack.cap
       THEN pack' = [pack EXCEPT !.pc = "done"]
       ELSE LET note == pack.selected[pack.k] IN
            IF Fits(pack.budget, note)
              THEN pack' = [pack EXCEPT !.packed = Append(@, note),
                                        !.budget = @ - note.token_count,
                                        !.k = @ + 1]
              ELSE pack' = [pack EXCEPT !.k = @ + 1]
  /\ UNCHANGED <<research_jobs, research_steps, notes, tick, running, api,
                 longformEnabled, now, budget, sources, citation_ledger, writer,
                 request, metadata>>

\* listNotes: ORDER BY importance DESC, created_at; the id of a note is its
\* place in that order.
ListedNotes(n) ==
  { rows \in [1..n -> [id : 1..n, importance : 1..MaxImportance,
                       token_count : 0..MaxTokenCount]] :
      /\ \A k \in 1..n : rows[k].id = k
      /\ \A k \in 1..(n - 1) : rows[k].importance >= rows[k + 1].importance }

\* The notes of the packing scenario of the design: 40 notes of importance
\* 5, 4, 3, ... and 500 tokens each, as listNotes orders them.
ScenarioCount == 40
ScenarioTokens == 500
ScenarioBudget == 3000
ScenarioCap == 8
ScenarioNotes ==
  [k \in 1..ScenarioCount |->
     [id |-> k, importance |-> 5 - ((k - 1) \div (ScenarioCount \div 5)),
      token_count |-> ScenarioTokens]]

\* One buildFinalReport call about to pack the notes of its job: any small
\* list of notes with any budget and cap, or the scenario of the design.
InitPack ==
  /\ research_jobs = <<>>
  /\ research_steps = <<>>
  /\ notes = <<>>
  /\ tick = [t \in Ticks |-> IdleTick]
  /\ running = 0
  /\ api = [a \in ApiIds |-> IdleApi]
  /\ longformEnabled = FALSE
  /\ now = Epoch
  /\ budget = [fires |-> 0, calls |-> 0, faults |-> 0, clock |-> 0]
  /\ sources = <<>>
  /\ citation_ledger = <<>>
  /\ writer = [w \in Writers |-> IdleWriter]
  /\ request = NoRequest
  /\ metadata = <<>>
  /\ \/ \E n \in 0..MaxPackNotes, B \in 0..MaxBudget, cap \in 1..MaxCap :
          \E rows \in ListedNotes(n) :
            pack = [NoPack EXCEPT !.pc = "list", !.notes = rows, !.B = B,
                                  !.cap = cap]
     \/ pack = [NoPack EXCEPT !.pc = "list", !.notes = ScenarioNotes,
                              !.B = ScenarioBudget, !.cap = ScenarioCap]

NextPack == SelectNotes \/ ScanNote

SpecPack == InitPack /\ [][NextPack]_vars

\* ------------------------------------------------ the notes of the critic
\* buildNotesEvidence: the first maxNotesForSynth notes of the sorted list.
BuildNotesEvidence(rows, cap) ==
  SubSeq(SelectNotesForSynthesis(rows), 1, Min(cap, Len(rows)))

\* buildLongformReport: notesText = buildNotesEvidence(notes), handed to
\* runCriticEvaluation with the combined sections.
LongformEvidence ==
  /\ pack.pc = "list"
  /\ longformEnabled
  /\ pack' = [pack EXCEPT !.pc = "done",
                          !.selected = SelectNotesForSynthesis(pack.notes),
                          !.packed = BuildNotesEvidence(pack.notes, pack.cap)]
  /\ UNCHANGED <<research_jobs, research_steps, notes, tick, running, api,
                 longformEnabled, now, budget, sources, citation_ledger, writer,
                 request, metadata>>

\* The report builder of either mode about to put together the notes of
\* its critic call: buildFinalReport hands runCriticEvaluation the notesText
\* of its packed notes, buildLongformReport that of buildNotesEvidence.
InitCritic ==
  /\ research_jobs = <<>>
  /\ research_steps = <<>>
  /\ notes = <<>>
  /\ tick = [t \in Ticks |-> IdleTick]
  /\ running = 0
  /\ api = [a \in ApiIds |-> IdleApi]
  /\ longformEnabled \in BOOLEAN
  /\ now = Epoch
  /\ budget = [fires |-> 0, calls |-> 0, faults |-> 0, clock |-> 0]
  /\ sources = <<>>
  /\ citation_ledger = <<>>
  /\ writer = [w \in Writers |-> IdleWriter]
  /\ request = NoRequest
  /\ metadata = <<>>
  /\ \E n \in 0..MaxPackNotes, B \in 0..MaxBudget, cap \in 1..MaxCap :
       \E rows \in ListedNotes(n) :
         pack = [NoPack EXCEPT !.pc = "list", !.notes = rows, !.B = B,
                               !.cap = cap]

NextCritic ==
  \/ ~longformEnabled /\ SelectNotes
  \/ ScanNote
  \/ LongformEvidence

SpecCritic == InitCritic /\ [][NextCritic]_vars

\* ================================================================ properties
RunningJobs == { j \in Jobs : research_jobs[j].status = "running" }
QueuedJobs == { j \in Jobs : research_jobs[j].status = "queued" }
Owners(j) == { t \in Ticks : tick[t].pc = "load" /\ tick[t].job = j }
Executors(j) == { t \in Ticks : Executing(t) /\ tick[t].job = j }
ClaimersDone == \A t \in Ticks : tick[t].pc \in {"idle", "load"}

\* C1 - Claim exclusivity: K concurrent claimers against Q queued jobs leave
\* exactly min(K, Q) jobs running, every running job was returned to exactly
\* one claimer, and a claimer that got null left every row as it was.
C1_ClaimExclusive ==
  /\ \A j \in RunningJobs : Cardinality(Owners(j)) = 1
  /\ \A t \in Ticks : tick[t].pc = "load" => tick[t].job \in RunningJobs
  /\ ClaimersDone =>
       Cardinality(RunningJobs) =
         Min(NumTicks, Cardinality(RunningJobs \cup QueuedJobs))
  /\ \A j \in Jobs \ RunningJobs :
       /\ research_jobs[j].started_at = NULL
       /\ research_jobs[j].last_heartbeat = research_jobs[j].created_at
       /\ research_jobs[j].updated_at = research_jobs[j].created_at

\* C1 witness: the race is over, one claimer owns a job and another got null
\* although it ran with the first.
C1_Witness ==
  /\ ClaimersDone
  /\ Cardinality(RunningJobs) = 1
  /\ \E t \in Ticks : tick[t].pc = "idle"
  /\ \E t \in Ticks : tick[t].pc = "load"

\* C2 - Control halt is not an error: no job ever carries the error text of
\* a control halt (paused / cancelled / clarification_required seen by a
\* control check).
C2_HaltNotError ==
  \A j \in Jobs : research_jobs[j].error # ControlErrorText

\* C3 - Single writer per job: at most one executor instance is executing a
\* given job at any time.
C3_SingleWriter == \A j \in Jobs : Cardinality(Executors(j)) <= 1

\* C4 - Cancelled stays cancelled: a step that is not a control API write
\* never takes a cancelled job to completed, running or queued.
C4_CancelledStays ==
  [][\A j \in Jobs :
       (research_jobs[j].status = "cancelled" /\ api' = api)
         => research_jobs'[j].status \notin {"completed", "running", "queued"}]_vars

\* C5 - Cooperative halt stops note creation: once the control check of a
\* boundary has seen the job paused, cancelled or clarification_required, the
\* executor that made the check inserts no note any more.
C5_HaltStopsNotes ==
  [][\A t \in Ticks :
       (tick[t].sawHalt /\ tick'[t] # tick[t]) => notes' = notes]_vars

\* C5 witness: an executor that had inserted a note stopped at a step
\* boundary where it saw the halt.
C5_Witness ==
  \E t \in Ticks :
    /\ tick[t].sawHalt
    /\ tick[t].pc = "catch_error"
    /\ Len(notes[tick[t].job]) > 0

\* The rule of the sweep as the design states it, with max() over the
\* timestamps.
StartThresholdMs == StartSeconds * 1000
HeartbeatThresholdMs == HeartbeatSeconds * 1000
GraceMs == GraceSeconds * 1000

DesignReason(j) ==
  LET row == research_jobs[j] IN
  IF Len(research_steps[j]) = 0
    THEN IF now - Max(row.started_at, row.created_at) > StartThresholdMs
           THEN "start" ELSE "none"
    ELSE IF now - Max3(row.last_heartbeat, row.updated_at, row.started_at)
              > Min(HeartbeatThresholdMs, row.max_duration_seconds * 1000 + GraceMs)
           THEN "heartbeat" ELSE "none"

DesignRescues ==
  { [id |-> j, reason |-> DesignReason(j)] :
      j \in { k \in RunningJobs : DesignReason(k) # "none" } }

\* Running jobs with steps whose heartbeat is older than the threshold.
HeartbeatStale ==
  { j \in RunningJobs :
      /\ Len(research_steps[j]) > 0
      /\ now - research_jobs[j].last_heartbeat >
           Min(HeartbeatThresholdMs,
               research_jobs[j].max_duration_seconds * 1000 + GraceMs) }

\* A query of the sweep made by tick t has returned (it did not fail).
SweepStep(t, pc) ==
  /\ tick[t].pc = pc
  /\ tick'[t] # tick[t]
  /\ budget' = budget

\* C6 - Rescue round-trip: the sweep picks every running job with steps whose
\* heartbeat is older than the threshold; its job update leaves each picked
\* job queued with started_at cleared and last_heartbeat refreshed; its step
\* update leaves every running step of those jobs pending.
C6_RescueRoundTrip ==
  [][\A t \in Ticks :
       /\ SweepStep(t, "rescue_scan")
            => HeartbeatStale \subseteq { r.id : r \in tick'[t].rescues }
       /\ SweepStep(t, "rescue_jobs")
            => \A j \in RescueIds(t) :
                 /\ research_jobs'[j].status = "queued"
                 /\ research_jobs'[j].started_at = NULL
                 /\ research_jobs'[j].last_heartbeat = now
       /\ SweepStep(t, "rescue_steps")
            => \A j \in RescueIds(t) : \A k \in DOMAIN research_steps[j] :
                 research_steps[j][k].status = "running"
                   => research_steps'[j][k].status = "pending"]_vars

\* C6 witness: a sweep has requeued a job that had a running step and is
\* about to reset the step.
C6_Witness ==
  \E t \in Ticks :
    /\ tick[t].pc = "rescue_steps"
    /\ \E r \in tick[t].rescues :
         /\ r.reason = "heartbeat"
         /\ research_jobs[r.id].status = "queued"
         /\ research_jobs[r.id].started_at = NULL
         /\ \E k \in DOMAIN research_steps[r.id] :
              research_steps[r.id][k].status = "running"

\* C7 - Rescue decision rule: the list a sweep builds is exactly the running
\* jobs the design rule picks, each with the reason the rule gives (start
\* for a job without steps, heartbeat for a job with steps).
C7_RescueDecision ==
  [][\A t \in Ticks :
       SweepStep(t, "rescue_scan") => tick'[t].rescues = DesignRescues]_vars

\* C7 witness: a sweep has picked a job with steps under the plain heartbeat
\* threshold.
C7_Witness ==
  \E t \in Ticks : \E r \in tick[t].rescues :
    /\ r.reason = "heartbeat"
    /\ research_jobs[r.id].max_duration_seconds = 3600

\* C8 - Worker capacity bound: the jobs the worker is executing at the same
\* time never exceed max_concurrent.
C8_CapacityBound ==
  Cardinality({ t \in Ticks : Executing(t) }) <= MaxConcurrent

\* C9 - Completed implies published: a completed job has final_report,
\* report_assets and completed_at.
C9_CompletedPublished ==
  \A j \in Jobs :
    research_jobs[j].status = "completed" =>
      /\ research_jobs[j].final_report # NULL
      /\ research_jobs[j].report_assets # NULL
      /\ research_jobs[j].completed_at # NULL

\* C9 witness: a job is completed.
C9_Witness == \E j \in Jobs : research_jobs[j].status = "completed"

\* C10 - Not completed implies unpublished: a job that is not completed has
\* final_report, report_assets and completed_at all null.
C10_NotCompletedUnpublished ==
  \A j \in Jobs :
    research_jobs[j].status # "completed" =>
      /\ research_jobs[j].final_report = NULL
      /\ research_jobs[j].report_assets = NULL
      /\ research_jobs[j].completed_at = NULL

\* C11 - Ledger numbering invariant: the citation numbers of a job's ledger
\* entries are exactly 1..N, and no two entries share a source_hash, with
\* concurrent assigners and resumed runs.
C11_LedgerDense ==
  \A j \in Jobs :
    LET ledger == citation_ledger[j] IN
    /\ { e.citation_number : e \in ledger } = 1..Cardinality(ledger)
    /\ \A e, f \in ledger : e.source_hash = f.source_hash => e = f

\* C11 witness: two entries in the ledger, one assigner rejected by a unique
\* index and another one on its second run.
C11_Witness ==
  /\ Cardinality(citation_ledger[LedgerJob]) >= 2
  /\ \E w \in Writers : writer[w].pc = "failed"
  /\ \E w \in Writers : writer[w].runs = 2 /\ writer[w].citations # <<>>

\* C12 - Concurrent citation assignment: a writer whose INSERT a unique index
\* rejects retries and gets a number; the conflict fails neither the
\* assignment nor the job.
C12_ConflictTolerated ==
  /\ \A w \in Writers : writer[w].pc # "failed"
  /\ \A j \in Jobs :
       (\E w \in Writers : writer[w].runs > 0) => research_jobs[j].status # "error"

\* C13 - Ledger dedup by URL across steps: the ledger of a job holds at most
\* one entry for a URL, whichever steps produced the sources.
C13_OneEntryPerUrl ==
  \A j \in Jobs : \A e, f \in citation_ledger[j] :
    e.source_hash[1] = f.source_hash[1] => e = f

\* C14 - step_order invariant: the step_order values of a job's steps are
\* exactly 1..M, with no gap and no duplicate.
C14_StepOrderDense ==
  \A j \in Jobs :
    { research_steps[j][k].step_order : k \in DOMAIN research_steps[j] }
      = 1..Len(research_steps[j])

\* C15 - idempotent resume: a second run of the executor on a job adds no
\* notes, so a job never holds more notes than one run writes: at most one
\* cross_job_summary, at most one critic_note and at most one step_summary
\* for each step.
NotesOfRole(j, role) == { k \in DOMAIN notes[j] : notes[j][k].role = role }

C15_ResumeAddsNothing ==
  \A j \in Jobs :
    /\ Cardinality(NotesOfRole(j, "cross_job_summary")) <= 1
    /\ Cardinality(NotesOfRole(j, "critic_note")) <= 1
    /\ \A k, l \in NotesOfRole(j, "step_summary") :
         notes[j][k].step_id = notes[j][l].step_id => k = l

\* C16 - resume skips finished steps: an executor that loaded existing
\* steps never reaches the planner or a step insert; it works (running
\* update, search, notes) only on steps it loaded as neither completed nor
\* partial, and step notes are written only that way; its loop leaves a
\* step it loaded as unfinished only through the execution of that step (or
\* by ending the run), and reaches the synthesis only after its last step.
FinishedAtLoad(t) ==
  tick[t].steps[tick[t].i].status \in {"completed", "partial"}

StepWorkPcs == {"exec_check", "step_running", "search", "notes", "step_done"}

C16_ResumeSkipsFinished ==
  [][\A t \in Ticks :
       /\ (tick'[t].pc = "plan" /\ tick[t].pc # "plan") =>
            tick[t].pc = "load_check" /\ tick[t].steps = <<>>
       /\ tick'[t].pc = "insert" => tick[t].pc \in {"plan", "insert"}
       /\ \A j \in Jobs :
            Len(research_steps'[j]) # Len(research_steps[j]) =>
              \E u \in Ticks : tick[u].pc = "insert" /\ tick[u].job = j
       /\ tick[t].pc \in StepWorkPcs => ~FinishedAtLoad(t)
       /\ \A j \in Jobs :
            (/\ Len(notes'[j]) > Len(notes[j])
             /\ notes'[j][Len(notes'[j])].step_id # NULL) =>
              \E u \in Ticks :
                /\ tick[u].pc = "notes" /\ tick[u].job = j
                /\ notes'[j][Len(notes'[j])].step_id = tick[u].steps[tick[u].i].id
       /\ (tick[t].pc = "step_check" /\ ~FinishedAtLoad(t) /\ tick'[t] # tick[t]) =>
            /\ tick'[t].pc \in {"exec_check", "catch_error"}
            /\ tick'[t].pc = "exec_check" => tick'[t].i = tick[t].i
       /\ (tick'[t].pc = "post_check" /\ tick[t].pc # "post_check") =>
            tick[t].pc \in {"search", "step_done"} /\ tick'[t].i = tick[t].i
       /\ (tick'[t].pc = "step_check" /\ tick[t].pc # "touch_plan" /\ tick'[t] # tick[t]) =>
            /\ tick[t].pc = "post_check" \/ (tick[t].pc = "step_check" /\ FinishedAtLoad(t))
            /\ tick'[t].i = tick[t].i + 1
       /\ (tick'[t].pc = "step_check" /\ tick[t].pc = "touch_plan") => tick'[t].i = 1
       /\ (tick'[t].pc = "synth_check" /\ tick[t].pc # "synth_check") =>
            /\ tick[t].pc = "post_check" \/ (tick[t].pc = "step_check" /\ FinishedAtLoad(t))
            /\ tick[t].i = Len(tick[t].steps)
    ]_vars

\* A resumed executor reached the synthesis over one step it loaded as
\* finished and one it loaded as pending and executed.
C16_Witness ==
  \E t \in Ticks :
    /\ tick[t].pc = "synth_check"
    /\ \E k, l \in DOMAIN tick[t].steps :
         /\ tick[t].steps[k].status \in {"completed", "partial"}
         /\ tick[t].steps[l].status = "pending"
         /\ research_steps[tick[t].job][tick[t].steps[l].id].status
              \in {"completed", "partial"}

\* C19 as stated: the created job waits for clarification exactly when one
\* of the five keys is absent, null, a blank string or an empty array or
\* object.
StatedNoValue(value) ==
  \/ value.type \in {"undefined", "null"}
  \/ value.type = "string" /\ \A k \in DOMAIN value.chars : value.chars[k] = " "
  \/ value.type \in {"array", "object"} /\ value.entries = <<>>

C19_IntakeStatusAsStated ==
  request.job # NULL =>
    LET status == research_jobs[request.job].status IN
    /\ status \in {"clarification_required", "queued"}
    /\ status = "clarification_required" <=>
         \E key \in ClarificationKeys : StatedNoValue(request.metadata[key])

\* C19 - intake status: the created job has status clarification_required
\* exactly when one of the five keys has no value, and queued otherwise,
\* where no value is: absent, null, a blank string, an empty object, or an
\* array none of whose entries has a value (the empty array included).
RECURSIVE NoValue(_)
NoValue(value) ==
  \/ value.type \in {"undefined", "null"}
  \/ value.type = "string" /\ \A k \in DOMAIN value.chars : value.chars[k] = " "
  \/ value.type = "object" /\ value.entries = <<>>
  \/ value.type = "array" /\ \A k \in DOMAIN value.entries : NoValue(value.entries[k])

C19_IntakeStatus ==
  request.job # NULL =>
    LET status == research_jobs[request.job].status IN
    /\ status \in {"clarification_required", "queued"}
    /\ status = "clarification_required" <=>
         \E key \in ClarificationKeys : NoValue(request.metadata[key])

\* A job was created waiting for clarification only because data_modalities
\* is an array of blank strings.
C19_Witness ==
  /\ request.job # NULL
  /\ research_jobs[request.job].status = "clarification_required"
  /\ request.metadata["data_modalities"].type = "array"
  /\ request.metadata["data_modalities"].entries # <<>>
  /\ \A key \in ClarificationKeys \ {"data_modalities"} :
       request.metadata[key].type = "string" /\ request.metadata[key].chars = <<"x">>

\* C20 - only queued jobs are claimed: a job's status becomes running only
\* from queued and only by the update of a claim, and an executor starts
\* only on a job that this very claim has taken from queued to running; a
\* job in any other status is never claimed.
C20_OnlyQueuedClaimed ==
  [][/\ \A j \in Jobs :
          (research_jobs'[j].status = "running" /\ research_jobs[j].status # "running") =>
            /\ research_jobs[j].status = "queued"
            /\ \E t \in Ticks :
                 /\ tick[t].pc = "claim_update" /\ tick[t].job = j
                 /\ tick'[t].pc = "load"
     /\ \A t \in Ticks :
          (tick'[t].pc \in {"claim_update", "load"} /\ tick'[t].pc # tick[t].pc) =>
            /\ research_jobs[tick'[t].job].status = "queued"
            /\ tick'[t].pc = "load" => research_jobs'[tick'[t].job].status = "running"
    ]_vars

\* A job that a control API request has handled is claimed, and its
\* executor is about to start.
C20_Witness ==
  \E t \in Ticks :
    /\ tick[t].pc = "load"
    /\ research_jobs[tick[t].job].status = "running"
    /\ budget.calls < MaxCalls

\* C17 - context pack bounds: for any notes and any budget B >= 0, the
\* packed notes have total token_count <= B and are at most
\* max_notes_for_synth; the packer scans the notes in the order
\* (importance descending, token_count descending), and the packed notes
\* are a subsequence of that order, in the order of their selection.
RECURSIVE TotalTokens(_)
TotalTokens(rows) ==
  IF rows = <<>> THEN 0 ELSE Head(rows).token_count + TotalTokens(Tail(rows))

\* The place of a note in the scanning order.
PlaceOf(id) == CHOOSE p \in DOMAIN pack.selected : pack.selected[p].id = id

C17_PackBounds ==
  pack.pc \in {"scan", "done"} =>
    /\ TotalTokens(pack.packed) <= pack.B
    /\ Len(pack.packed) <= pack.cap
    /\ Len(pack.selected) = Len(pack.notes)
    /\ { pack.selected[p] : p \in DOMAIN pack.selected }
         = { pack.notes[p] : p \in DOMAIN pack.notes }
    /\ \A p, q \in DOMAIN pack.selected :
         p < q =>
           \/ pack.selected[p].importance > pack.selected[q].importance
           \/ /\ pack.selected[p].importance = pack.selected[q].importance
              /\ pack.selected[p].token_count >= pack.selected[q].token_count
    /\ \A p \in DOMAIN pack.packed :
         \E q \in DOMAIN pack.selected : pack.selected[q] = pack.packed[p]
    /\ \A p, q \in DOMAIN pack.packed :
         p < q => PlaceOf(pack.packed[p].id) < PlaceOf(pack.packed[q].id)

\* The packer has finished after it reordered the notes, skipped a note
\* that did not fit and selected a later one.
C17_Witness ==
  /\ pack.pc = "done"
  /\ pack.selected # pack.notes
  /\ \E p, q \in DOMAIN pack.selected :
       /\ p < q
       /\ \A r \in DOMAIN pack.packed : pack.packed[r] # pack.selected[p]
       /\ \E r \in DOMAIN pack.packed : pack.packed[r] = pack.selected[q]

\* C18 - context pack greedy selection: when the packer has finished, a
\* note is left out only if adding it to the notes packed before it would
\* make the total exceed B, or if the cap was reached before it (so a note
\* behind a skipped one is still selected, and so is a note whose
\* token_count equals the remaining budget); with equal 500-token notes,
\* budget 3000 and cap 8 exactly 6 notes are selected.
PackedBefore(p) ==
  { r \in DOMAIN pack.packed : PlaceOf(pack.packed[r].id) < p }

RECURSIVE TokensOf(_)
TokensOf(places) ==
  IF places = {} THEN 0
  ELSE LET r == CHOOSE x \in places : TRUE
       IN pack.packed[r].token_count + TokensOf(places \ {r})

C18_GreedySelection ==
  pack.pc = "done" =>
    /\ \A p \in DOMAIN pack.selected :
         (\A r \in DOMAIN pack.packed : pack.packed[r] # pack.selected[p]) =>
           \/ TokensOf(PackedBefore(p)) + pack.selected[p].token_count > pack.B
           \/ Cardinality(PackedBefore(p)) >= pack.cap
    /\ (pack.notes = ScenarioNotes /\ pack.B = ScenarioBudget /\ pack.cap = ScenarioCap) =>
         Len(pack.packed) = 6

\* C21 - clarify transition: a clarification request is taken up only for
\* a job it reads in status clarification_required, and taking it up changes
\* nothing of the job; its write stores the metadata with the responses
\* merged in (a key the request carries replaces the stored one), and sets
\* status queued if every one of the five keys then has a value and
\* clarification_required otherwise; nothing else changes a job's metadata.
ClarifyOps == {"clarify_queue", "clarify_again"}

C21_ClarifyTransition ==
  [][/\ \A a \in ApiIds :
          (api[a].op = "idle" /\ api'[a].op \in ClarifyOps) =>
            LET j == api'[a].job IN
            /\ research_jobs[j].status = "clarification_required"
            /\ research_jobs' = research_jobs /\ metadata' = metadata
            /\ \A key \in MetadataKeys :
                 api'[a].metadata[key] =
                   IF api'[a].responses[key] # Undefined
                     THEN api'[a].responses[key] ELSE metadata[j][key]
     /\ \A a \in ApiIds :
          (api[a].op \in ClarifyOps /\ api'[a].op = "idle") =>
            LET j == api[a].job IN
            /\ metadata'[j] = api[a].metadata
            /\ research_jobs'[j].status =
                 IF \A key \in ClarificationKeys : ~NoValue(metadata'[j][key])
                   THEN "queued" ELSE "clarification_required"
     /\ \A j \in Jobs :
          metadata'[j] # metadata[j] =>
            \E a \in ApiIds :
              api[a].op \in ClarifyOps /\ api[a].job = j /\ api'[a].op = "idle"
    ]_vars

\* A second clarification request completes metadata that an earlier one
\* filled in part: it does not carry all five keys, and it is about to queue
\* the job.
C21_Witness ==
  \E a \in ApiIds :
    /\ api[a].op = "clarify_queue"
    /\ \E key \in ClarificationKeys : api[a].responses[key] = Undefined
    /\ \E key \in ClarificationKeys : metadata[api[a].job][key] = Str(<<" ">>)
    /\ research_jobs[api[a].job].status = "clarification_required"

\* C22 - start transition: a start request is taken up only for a job it
\* reads in status paused, and taking it up changes nothing of the job; its
\* write sets status queued and clears error, final_report, report_assets
\* and completed_at.
C22_StartTransition ==
  [][\A a \in ApiIds :
       /\ (api[a].op = "idle" /\ api'[a].op = "start") =>
            /\ research_jobs[api'[a].job].status = "paused"
            /\ research_jobs' = research_jobs
       /\ (api[a].op = "start" /\ api'[a].op = "idle") =>
            LET row == research_jobs'[api[a].job] IN
            /\ row.status = "queued"
            /\ row.error = NULL /\ row.final_report = NULL
            /\ row.report_assets = NULL /\ row.completed_at = NULL
    ]_vars

\* A job that had been completed (its cross-job summary is written) and
\* then paused was started: it is queued again without report.
C22_Witness ==
  \E j \in Jobs :
    /\ research_jobs[j].status = "queued"
    /\ research_jobs[j].final_report = NULL
    /\ \E k \in DOMAIN notes[j] : notes[j][k].role = "cross_job_summary"
    /\ \A a \in ApiIds : api[a].op = "idle"

\* C23 - pause is recoverable: as long as no store or tool call has failed,
\* a job that is paused keeps being startable; no step of the program turns
\* it into an error job, which a start request would reject.
C23_PauseRecoverable ==
  [][\A j \in Jobs :
       (research_jobs[j].status = "paused" /\ budget.faults = MaxFaults)
         => research_jobs'[j].status # "error"
    ]_vars

\* C24 - duration budget: a sweep that meets a running job whose run has
\* lasted longer than max_duration_seconds plus the grace period puts the
\* job on its rescue list.
OverBudget(j) ==
  /\ research_jobs[j].status = "running"
  /\ research_jobs[j].max_duration_seconds # NULL
  /\ research_jobs[j].started_at # NULL
  /\ now - research_jobs[j].started_at
       > research_jobs[j].max_duration_seconds * 1000 + GraceSeconds * 1000

C24_DurationBudget ==
  [][\A t \in Ticks :
       (tick[t].pc = "rescue_scan" /\ tick'[t].pc # "rescue_scan") =>
         \A j \in Jobs :
           OverBudget(j) => \E r \in tick'[t].rescues : r.id = j
    ]_vars

\* C25 - stall recovery: when the worker has died leaving a job running
\* with a running step, the heartbeat threshold has elapsed and a tick has
\* fired, the job is eventually completed (the worker not dying again, no
\* other job waiting or running, and the notes table having room for the
\* notes of its unfinished steps); and
\* a step is inserted only by an executor that found its job without steps
\* when it loaded it, so the executor of a job that has a step inserts none.
UnfinishedSteps(j) ==
  { k \in DOMAIN research_steps[j] :
      research_steps[j][k].status \notin {"completed", "partial"} }

Stalled(j) ==
  /\ budget.faults < MaxFaults /\ budget.faults = 0
  /\ Len(notes[j]) + Cardinality(UnfinishedSteps(j)) * (MaxPageNotes + 1)
       <= MaxNotes
  /\ research_jobs[j].status = "running"
  /\ HasRunningStep(j)
  /\ \A t \in Ticks : ~Executing(t)
  /\ now - research_jobs[j].last_heartbeat > HeartbeatSeconds * 1000
  /\ \E t \in Ticks : tick[t].pc = "rescue_scan"
  /\ \A k \in Jobs \ {j} : research_jobs[k].status \in {"completed", "error"}

C25_StallRecovery ==
  /\ \A j \in 1..NumJobs :
       Stalled(j) ~> (research_jobs[j].status = "completed")
  /\ [][\A j \in Jobs :
          Len(research_steps'[j]) # Len(research_steps[j]) =>
            \E t \in Ticks :
              /\ tick[t].pc = "insert" /\ tick[t].job = j
              /\ Len(tick[t].steps) = tick[t].i - 1]_vars

\* The job of a worker that died was claimed again after the heartbeat
\* threshold and is completed, all its steps finished.
C25_Witness ==
  \E j \in Jobs :
    /\ budget.faults < MaxFaults
    /\ research_jobs[j].status = "completed"
    /\ research_jobs[j].started_at - Epoch > HeartbeatSeconds * 1000
    /\ Len(research_steps[j]) > 0
    /\ \A k \in DOMAIN research_steps[j] :
         research_steps[j][k].status \in {"completed", "partial"}

\* C26 - fallback plan: when the planner output is text that is not JSON,
\* or JSON that is not an array, planning does not fail: the executor goes
\* on to insert exactly one step, with title "Perform initial web research",
\* tool_hint "searxng" and step_order 1, and then to the step loop.
Unusable(response) == response.kind \in {"object", "text"}

C26_FallbackPlan ==
  [][\A t \in Ticks :
       /\ (tick[t].pc = "plan" /\ Unusable(tick'[t].response)) =>
            /\ tick'[t].pc = "insert"
            /\ Len(tick'[t].stepsPlan) = 1
       /\ (tick[t].pc = "insert" /\ Unusable(tick[t].response)
             /\ tick'[t].pc \notin {"insert", "catch_error"}) =>
            /\ tick'[t].pc = "touch_plan"
            /\ research_steps'[tick[t].job] =
                 Append(research_steps[tick[t].job],
                        [step_order |-> 1, status |-> "pending",
                         title |-> "Perform initial web research",
                         tool_hint |-> "searxng", result |-> NULL])
    ]_vars

\* A job whose only step is the fallback step is completed.
C26_Witness ==
  \E j \in Jobs :
    /\ research_jobs[j].status = "completed"
    /\ research_steps[j] =
         <<[step_order |-> 1, status |-> "completed",
            title |-> "Perform initial web research", tool_hint |-> "searxng",
            result |-> SourcesResult]>>

\* C27 - tool failures are never fatal: no failure of a search, fetch, chat
\* or embed call makes the worker write status error on the job; the
\* outer frame never handles a rejection that a tool call caused.
C27_ToolFailureNotFatal ==
  [][\A t \in Ticks :
       (tick[t].pc = "catch_error" /\ tick[t].thrown = "chat"
          /\ tick'[t].pc = "idle")
         => research_jobs'[tick[t].job].status # "error"
    ]_vars

C29_CancelKeepsCompleted ==
  [][\A a \in ApiIds :
       (api[a].op = "cancel" /\ api'[a].op = "idle"
          /\ research_jobs[api[a].job].status = "completed")
         => research_jobs'[api[a].job].status = "completed"
    ]_vars

\* C30 - tick sequence: a tick starts with the rescue sweep; it reaches the
\* claim only from the sweep, finished or failed, and only when fewer than
\* max_concurrent jobs are in flight, and goes idle otherwise; its claim
\* takes at most one job, and the executor it starts never claims.
SweepPcs == {"rescue_scan", "rescue_jobs", "rescue_steps"}

C30_TickSequence ==
  [][\A t \in Ticks :
       LET pc == tick[t].pc
           next == tick'[t].pc
       IN
       /\ (pc = "idle" /\ next # "idle") => next = "rescue_scan"
       /\ (pc # "claim_select" /\ next = "claim_select") =>
            pc \in SweepPcs /\ running < MaxConcurrent
       /\ (pc \in SweepPcs /\ next \notin SweepPcs) =>
            next = (IF running >= MaxConcurrent THEN "idle" ELSE "claim_select")
       /\ (pc \in SweepPcs /\ budget'.faults < budget.faults
             /\ tick'[t] # tick[t]) =>
            next = (IF running >= MaxConcurrent THEN "idle" ELSE "claim_select")
       /\ (pc = "claim_select" /\ next # "claim_select") =>
            /\ next \in {"idle", "claim_update"}
            /\ research_jobs' = research_jobs
       /\ (pc = "claim_update" /\ next # "claim_update") =>
            /\ next = "load" /\ running' = running + 1
            /\ research_jobs'[tick[t].job].status = "running"
            /\ \A k \in Jobs : k # tick[t].job => research_jobs'[k] = research_jobs[k]
       /\ (Executing(t) /\ ~Executing(t)') => next \in {"idle", "catch_error"}
       /\ (pc = "catch_error" /\ next # "catch_error") => next = "idle"
    ]_vars

\* The only tick that has fired had its sweep fail and went on to claim one
\* of two queued jobs.
C30_Witness ==
  /\ budget.fires = OverlapFires - 1
  /\ budget.faults < MaxFaults
  /\ running = 1
  /\ \E t \in Ticks : tick[t].pc = "load" /\ tick[t].thrown = "none"
  /\ \E j \in Jobs : research_jobs[j].status = "queued"

\* C31  A claim takes a queued row that no other claim transaction has locked
\* and that is the oldest such row by created_at, or none when there is no
\* such row; its UPDATE sets status running and started_at, updated_at and
\* last_heartbeat to the now() of the claim transaction and leaves every
\* other row alone; the sweep gives a job back to the queue with the
\* created_at it had, so it competes by its original age.
C31_FifoClaim ==
  [][\A t \in Ticks :
       /\ (tick[t].pc = "claim_select" /\ tick'[t].pc = "claim_update") =>
            LET j == tick'[t].job IN
            /\ research_jobs[j].status = "queued"
            /\ ~Locked(j)
            /\ tick'[t].txn_now = now
            /\ \A k \in Jobs :
                 (research_jobs[k].status = "queued" /\ ~Locked(k)) =>
                   research_jobs[j].created_at <= research_jobs[k].created_at
       /\ (tick[t].pc = "claim_select" /\ tick'[t].pc = "idle") =>
            \A k \in Jobs : research_jobs[k].status = "queued" => Locked(k)
       /\ (tick[t].pc = "claim_update" /\ tick'[t].pc = "load") =>
            LET j == tick[t].job IN
            /\ tick'[t].job = j
            /\ research_jobs'[j] =
                 [research_jobs[j] EXCEPT !.status = "running",
                                          !.started_at = tick[t].txn_now,
                                          !.updated_at = tick[t].txn_now,
                                          !.last_heartbeat = tick[t].txn_now]
            /\ tick[t].txn_now <= now
            /\ \A k \in Jobs \ {j} : research_jobs'[k] = research_jobs[k]
       /\ (tick[t].pc = "rescue_jobs" /\ tick'[t].pc = "rescue_steps") =>
            \A j \in RescueIds(t) :
              /\ research_jobs'[j].status = "queued"
              /\ research_jobs'[j].created_at = research_jobs[j].created_at
     ]_vars

\* A claimer has selected a job the sweep gave back while a younger queued
\* job was waiting too.
C31_Witness ==
  \E t \in Ticks :
    /\ tick[t].pc = "claim_update"
    /\ LET j == tick[t].job IN
       /\ research_jobs[j].status = "queued"
       /\ research_jobs[j].started_at = NULL
       /\ research_jobs[j].updated_at > research_jobs[j].created_at
       /\ \E k \in Jobs \ {j} :
            /\ research_jobs[k].status = "queued"
            /\ research_jobs[k].created_at > research_jobs[j].created_at

\* C32  Within a job the steps run one at a time in step_order: whenever a
\* step is in status running, every step of the job with a smaller
\* step_order is completed or partial, and no other step of the job is
\* running.
C32_StepOrdering ==
  \A j \in Jobs :
    \A k \in DOMAIN research_steps[j] :
      research_steps[j][k].status = "running" =>
        \A m \in DOMAIN research_steps[j] \ {k} :
          /\ research_steps[j][m].status # "running"
          /\ research_steps[j][m].step_order < research_steps[j][k].step_order =>
               IsStepComplete(research_steps[j][m].status)

\* C33  A job in status completed has at least one step, and each of its
\* steps is completed or partial.
C33_CompletedAfterSteps ==
  \A j \in Jobs :
    research_jobs[j].status = "completed" =>
      /\ Len(research_steps[j]) >= 1
      /\ \A k \in DOMAIN research_steps[j] :
           IsStepComplete(research_steps[j][k].status)

\* C34  When no search tool that is called returns results (each call throws
\* or returns an empty list), runSearch returns an empty list; the executor
\* then writes the step as partial with the reason "No search results",
\* touches no other step, inserts no note and no source, leaves the job's
\* status as it is, and after the control check that follows goes on to
\* the next step (or to synthesis after the last one).
C34_EmptySearchPartial ==
  /\ \A outcome \in SearchOutcomes :
       (\A tool \in CalledTools : outcome[tool] # "results") =>
         RunSearchResults("searxng", outcome) = "empty"
  /\ [][\A t \in Ticks :
          LET j == tick[t].job
              id == tick[t].steps[tick[t].i].id
          IN
          /\ (tick[t].pc = "search" /\ tick'[t].pc \notin {"search", "catch_error"}) =>
               \/ /\ tick'[t].pc = "post_check"
                  /\ research_steps'[j] =
                       [research_steps[j] EXCEPT ![id].status = "partial",
                                                 ![id].result = NoSearchResults]
                  /\ notes' = notes
                  /\ sources' = sources
                  /\ research_jobs'[j].status = research_jobs[j].status
               \/ /\ tick'[t].pc \in {"notes", "step_done"}
                  /\ research_steps' = research_steps
          /\ (tick[t].pc = "post_check" /\ EnsureJobActive(j) = "ok"
                /\ tick'[t] # tick[t] /\ budget' = budget) =>
               /\ tick'[t].pc = NextStepPc(t)
               /\ tick[t].i < Len(tick[t].steps) => tick'[t].i = tick[t].i + 1
               /\ research_jobs' = research_jobs
     ]_vars

\* An executor is about to run the second step of a job whose first step
\* ended partial for want of search results, without a note.
C34_Witness ==
  \E t \in Ticks :
    /\ tick[t].pc = "step_running"
    /\ tick[t].i = 2
    /\ LET j == tick[t].job
           first == tick[t].steps[1].id
       IN /\ research_steps[j][first].status = "partial"
          /\ research_steps[j][first].result = NoSearchResults
          /\ notes[j] = <<>>
          /\ research_jobs[j].status = "running"

\* C35  Every write an executor makes to the steps or the notes of its job
\* (a step insert, a step status update, a note insert) leaves the job's
\* last_heartbeat at the time of the write.
C35_HeartbeatOnWrite ==
  [][\A t \in Ticks :
       (/\ Executing(t)
        /\ tick'[t] # tick[t]
        /\ \/ research_steps'[tick[t].job] # research_steps[tick[t].job]
           \/ notes'[tick[t].job] # notes[tick[t].job]) =>
         research_jobs'[tick[t].job].last_heartbeat = now
    ]_vars

\* C36  The sweep writes only to jobs that are running and stale when it
\* writes: its job update changes no row that is not running, or not past
\* its threshold, at that moment, and resets the running steps of the jobs
\* it requeues in the same step; its step reset changes only steps in
\* status running; notes and the rows of other jobs stay as they are.
C36_RescueOnlyStale ==
  [][\A t \in Ticks :
       /\ (tick[t].pc = "rescue_jobs" /\ tick'[t].pc = "rescue_steps") =>
            /\ \A j \in Jobs :
                 research_jobs'[j] # research_jobs[j] =>
                   /\ research_jobs[j].status = "running"
                   /\ RescueReason(j) # "none"
                   /\ ~HasRunningStep(j)'
            /\ notes' = notes
       /\ (tick[t].pc = "rescue_steps" /\ tick'[t].pc # "rescue_steps"
             /\ budget' = budget) =>
            /\ \A j \in Jobs : \A k \in DOMAIN research_steps[j] :
                 research_steps'[j][k] # research_steps[j][k] =>
                   research_steps[j][k].status = "running"
            /\ notes' = notes
            /\ research_jobs' = research_jobs
    ]_vars

\* C37  The worker's counter is never negative and is the number of
\* processJob chains that have started and not settled; it goes up by one
\* exactly when a claim returns a job, down by one exactly when a chain
\* settles (completed, halted by a control check, or failed, whether or
\* not the error write went through), and changes at no other step.
InFlight == { t \in Ticks : Executing(t) \/ tick[t].pc = "catch_error" }

C37_InFlightCounter ==
  /\ [](running >= 0 /\ running = Cardinality(InFlight))
  /\ [][\A t \in Ticks :
          /\ (tick[t].pc = "claim_update" /\ tick'[t].pc # "claim_update") =>
               (t \in InFlight' /\ running' = running + 1)
          /\ (t \in InFlight /\ t \notin InFlight') =>
               (tick'[t] = IdleTick /\ running' = running - 1)
          /\ (running' # running) => Cardinality(InFlight') # Cardinality(InFlight)
     ]_vars

\* A chain whose error write failed has settled: the job is still running
\* and the slot is free.
C37_Witness ==
  /\ running = 0
  /\ budget.faults < MaxFaults
  /\ \A t \in Ticks : tick[t].pc = "idle"
  /\ \E j \in Jobs : research_jobs[j].status = "running"

\* C38  When an executor run settles, the status of its job is completed,
\* error, paused, cancelled or clarification_required: no run ends with the
\* job still in status running (or back in the queue).
C38_SettlesTerminal ==
  [][\A t \in Ticks :
       (t \in InFlight /\ t \notin InFlight') =>
         research_jobs'[tick[t].job].status \in
           {"completed", "error", "paused", "cancelled", "clarification_required"}
    ]_vars

\* C39  When a control check makes an executor stop (it observed paused,
\* cancelled or clarification_required), no step of the job is in status
\* running.
C39_NoRunningStepOnHalt ==
  [][\A t \in Ticks :
       (/\ tick[t].pc \in CheckPcs
        /\ EnsureJobActive(tick[t].job) # "ok"
        /\ tick'[t] # tick[t]
        /\ budget' = budget) =>
         ~HasRunningStep(tick[t].job)
    ]_vars

\* C40  In classic and in longform mode the notes whose text goes into the
\* critic call have a total token_count of at most the budget and are at
\* most max_notes_for_synth.
C40_CriticBudgeted ==
  pack.pc = "done" =>
    /\ TotalTokens(pack.packed) <= pack.B
    /\ Len(pack.packed) <= pack.cap

====
